---- MODULE Spec2Model ----
(***************************************************************************)
(* A model of grid_mask: the bit-packed ArrayGrid<W, H, WORDS> with its    *)
(* mutating operations (src/array/grid.rs) and the 8x8 GridMask with its   *)
(* translation and flood fill (src/grid/mask.rs, src/grid/adjacency.rs).   *)
(*                                                                         *)
(* A BitArray<[u64; WORDS], Lsb0> is modelled as the set of the positions  *)
(* of its 1 bits, position i being bit i % 64 of word i \div 64.           *)
(***************************************************************************)
EXTENDS Integers, FiniteSets, Sequences, TLC

VARIABLES
    W,          \* the grid type's width  (const generic W)
    H,          \* the grid type's height (const generic H)
    data,       \* ArrayGrid::data, the positions of the 1 bits
    prev,       \* data before the last operation (a constructor: its raw input)
    last,       \* the last operation and its arguments
    steps,      \* number of operations applied since construction
    target,     \* the view of the grid at hand: its rect, if any
    overflow_checks,  \* the build's overflow-checks setting (on: debug profile)
    mask,       \* GridMask.0 of the receiver, the positions of the 1 bits
    call,       \* the GridMask method called and its arguments
    pc,         \* where that call stands: "start", "loop", "returned", "panicked"
    flooded,    \* the local `flooded` of GridMask::connected
    iters,      \* passes of the loop of GridMask::connected made so far
    ret,        \* the value the call returned
    shape,      \* the GridShape<A> at hand: its wrapped mask and its A, if any
    iter        \* the iterator at hand, what it has yielded and what it last returned

arrayVars == <<W, H, data, prev, last, steps, target>>

maskVars == <<overflow_checks, mask, call, pc, flooded, iters, ret, shape, iter>>

vars == <<W, H, data, prev, last, steps, target, overflow_checks, mask, call, pc, flooded, iters, ret,
          shape, iter>>

----------------------------------------------------------------------------
(* Bounds of the model *)

\* Operations applied to one grid after its construction.
MaxOps == 2

\* How far beyond the grid's own dimension a translation component may reach.
VecSlack == 1

\* Grid types explored exhaustively (every cell pattern) and by samples.
SmallTypes == {<<3, 2>>}
LargeTypes == {<<11, 6>>}
GridTypes == SmallTypes \cup LargeTypes

----------------------------------------------------------------------------
(* Storage layout: src/array/grid.rs *)

WORD_BITS == 64

CELLS(w, h) == w * h

WORD_COUNT(w, h) == (CELLS(w, h) + WORD_BITS - 1) \div WORD_BITS

LAST_WORD(w, h) == WORD_COUNT(w, h) - 1

\* Length in bits of the whole BitArray, tail included.
BitLen(w, h) == WORD_COUNT(w, h) * WORD_BITS

\* The bit positions (within a word) of the mask USED_TRAILING_BITS.
USED_TRAILING_BITS(w, h) ==
    IF CELLS(w, h) % WORD_BITS = 0
    THEN 0 .. (WORD_BITS - 1)
    ELSE 0 .. ((CELLS(w, h) % WORD_BITS) - 1)

\* self.data.data[LAST_WORD] &= USED_TRAILING_BITS
clear_trailing_bits(w, h, d) ==
    {i \in d : \/ i \div WORD_BITS # LAST_WORD(w, h)
               \/ (i % WORD_BITS) \in USED_TRAILING_BITS(w, h)}

EMPTY == {}

\* [u64::MAX; WORDS], then clear_trailing_bits
FULL(w, h) == clear_trailing_bits(w, h, 0 .. (BitLen(w, h) - 1))

\* impl From<[u64; WORDS]>: the raw words, then clear_trailing_bits
from_words(w, h, words) == clear_trailing_bits(w, h, words)

\* derive_more::From on the struct: From<BitArray<[u64; WORDS], Lsb0>> stores
\* the caller's bit array as it is.
from_bitarray(w, h, words) == words

\* ArrayIndex::word_and_bit
word_and_bit(index) == <<index \div WORD_BITS, index % WORD_BITS>>

\* ArrayIndex::new: Ok iff index < W * H
ArrayIndex_new(w, h, index) == index >= 0 /\ index < CELLS(w, h)

\* ArrayIndex::from_point: y * W + x
from_point(w, x, y) == y * w + x

const_get(d, index) ==
    LET wb == word_and_bit(index)
    IN  (wb[1] * WORD_BITS + wb[2]) \in d

const_set(d, index, value) ==
    LET wb == word_and_bit(index)
        bit == wb[1] * WORD_BITS + wb[2]
    IN  IF value THEN d \cup {bit} ELSE d \ {bit}

\* self.data[..CELLS_USZ].fill(value)
fill(w, h, d, value) ==
    IF value THEN d \cup (0 .. (CELLS(w, h) - 1))
             ELSE d \ (0 .. (CELLS(w, h) - 1))

\* every word negated, then clear_trailing_bits
negate(w, h, d) == clear_trailing_bits(w, h, (0 .. (BitLen(w, h) - 1)) \ d)

\* the closure leaves `words` in the array, then clear_trailing_bits
mutate_data(w, h, d, words) == clear_trailing_bits(w, h, words)

\* self.data.count_ones()
count(d) == Cardinality(d)

----------------------------------------------------------------------------
(* Translation: src/array/delta.rs, src/num/signed_mag.rs, src/array/grid.rs *)

Abs(n) == IF n < 0 THEN -n ELSE n

\* SignedMag<T>: Positive(n) | Zero | Negative(n)
SignedMag(n) ==
    IF n = 0 THEN [sign |-> "Zero", mag |-> 0]
    ELSE IF n > 0 THEN [sign |-> "Positive", mag |-> n]
    ELSE [sign |-> "Negative", mag |-> -n]

\* ArrayDelta::try_from with the bounds compared by > where the code has >=:
\* a component equal to the dimension is let through.
ArrayDelta_try_from_Gt(w, h, dx, dy) ==
    IF Abs(dx) > w \/ Abs(dy) > h
    THEN [ok |-> FALSE]
    ELSE [ok |-> TRUE, linear_offset |-> SignedMag(dy * w + dx), dx |-> SignedMag(dx)]

\* ArrayDelta::<W, H>::try_from(vec)
ArrayDelta_try_from(w, h, dx, dy) ==
    IF Abs(dx) >= w \/ Abs(dy) >= h
    THEN [ok |-> FALSE]
    ELSE [ok |-> TRUE, linear_offset |-> SignedMag(dy * w + dx), dx |-> SignedMag(dx)]

\* BitSlice::shift_right(by): bit i moves to i + by, the first `by` bits
\* become 0; by >= len clears the slice.
shift_right(d, by, len) ==
    IF by = 0 THEN d
    ELSE IF by >= len THEN {}
    ELSE {i + by : i \in {j \in d : j + by < len}}

\* BitSlice::shift_left(by): bit i moves to i - by, the last `by` bits
\* become 0; by >= len clears the slice.
shift_left(d, by, len) ==
    IF by = 0 THEN d
    ELSE IF by >= len THEN {}
    ELSE {i - by : i \in {j \in d : j - by >= 0}}

\* clear_wrapped_columns clearing the first |dx| columns for a negative dx
\* too, where the code clears the last |dx|.
clear_wrapped_columns_FirstOnly(w, h, d, dxm) ==
    IF dxm.sign = "Zero" THEN d
    ELSE {i \in d : ~ (/\ i \div w < h
                       /\ (i % w) >= 0
                       /\ (i % w) < dxm.mag)}

\* ArrayGrid::clear_wrapped_columns: in each of the first H chunks of W bits,
\* the columns min .. max - 1 are cleared.
clear_wrapped_columns(w, h, d, dxm) ==
    IF dxm.sign = "Zero" THEN d
    ELSE LET min == IF dxm.sign = "Positive" THEN 0 ELSE w - dxm.mag
             max == IF dxm.sign = "Positive" THEN dxm.mag ELSE w
         IN  {i \in d : ~ (/\ i \div w < h
                           /\ (i % w) >= min
                           /\ (i % w) < max)}

\* translate without the arm for a zero offset: the zero vector is shifted
\* and masked like a positive one, by nothing.
translate_NoZeroArm(w, h, d, dx, dy) ==
    LET delta == ArrayDelta_try_from(w, h, dx, dy)
    IN  IF ~ delta.ok THEN fill(w, h, d, FALSE)
        ELSE IF delta.linear_offset.sign # "Negative"
        THEN clear_trailing_bits(w, h,
                 clear_wrapped_columns(w, h,
                     shift_right(d, delta.linear_offset.mag, BitLen(w, h)), delta.dx))
        ELSE clear_trailing_bits(w, h,
                 clear_wrapped_columns(w, h,
                     shift_left(d, delta.linear_offset.mag, BitLen(w, h)), delta.dx))

\* ArrayGrid::translate
translate(w, h, d, dx, dy) ==
    LET delta == ArrayDelta_try_from(w, h, dx, dy)
    IN  IF ~ delta.ok THEN fill(w, h, d, FALSE)
        ELSE IF delta.linear_offset.sign = "Zero" THEN d
        ELSE IF delta.linear_offset.sign = "Positive"
        THEN clear_trailing_bits(w, h,
                 clear_wrapped_columns(w, h,
                     shift_right(d, delta.linear_offset.mag, BitLen(w, h)), delta.dx))
        ELSE clear_trailing_bits(w, h,
                 clear_wrapped_columns(w, h,
                     shift_left(d, delta.linear_offset.mag, BitLen(w, h)), delta.dx))

----------------------------------------------------------------------------
(* Inputs *)

AllBits(w, h) == 0 .. (BitLen(w, h) - 1)

CellBits(w, h) == 0 .. (CELLS(w, h) - 1)

\* Patterns of the unused tail a caller-supplied array may carry.
TailSamples(w, h) ==
    IF CELLS(w, h) = BitLen(w, h) THEN {{}}
    ELSE {{}, {CELLS(w, h)}, {BitLen(w, h) - 1}}

\* Bit positions at the ends of the first row, of the first word and of the
\* grid, and in the unused tail.
SampleBits(w, h) ==
    {0, w - 1, w, CELLS(w, h) - 1, CELLS(w, h), BitLen(w, h) - 1}
    \cup ({WORD_BITS - 1, WORD_BITS} \cap AllBits(w, h))

\* Raw word arrays: one bit, all bits, no bit, every other bit, a cell with a
\* tail bit.
RawWords(w, h) ==
    {{i} \cap AllBits(w, h) : i \in SampleBits(w, h)}
    \cup {AllBits(w, h), {}, {i \in AllBits(w, h) : i % 2 = 0}}
    \cup {{w + 1} \cup t : t \in TailSamples(w, h)}

\* Word arrays handed to From<[u64; WORDS]>: on the small types every cell
\* pattern, with every sampled tail.
CtorWords(w, h) ==
    IF <<w, h>> \in SmallTypes
    THEN {c \cup t : c \in SUBSET CellBits(w, h), t \in TailSamples(w, h)}
    ELSE RawWords(w, h)

\* Index sets handed to FromIterator and Extend.
IndexSets(w, h) ==
    IF <<w, h>> \in SmallTypes
    THEN SUBSET CellBits(w, h)
    ELSE {{i} \cap CellBits(w, h) : i \in SampleBits(w, h)}
         \cup {{0, CELLS(w, h) - 1}, {w - 1, w}}

\* Components of the translation vectors tried on an axis of length n: none,
\* one step, the longest shift inside the grid, the first that saturates and
\* one VecSlack beyond it, in both directions.
SampleVecAxis(n) ==
    LET pos == {1, n - 1, n, n + VecSlack}
    IN  {0} \cup pos \cup {-p : p \in pos}

\* Raw flat indices handed to set: every cell and the first index out of bounds
\* (small types), the sampled positions (large types).
SampleIndices(w, h) ==
    IF <<w, h>> \in SmallTypes
    THEN 0 .. CELLS(w, h)
    ELSE SampleBits(w, h) \cap (0 .. CELLS(w, h))

\* FromIterator / Extend: index.set(grid, true) for each index, in turn
RECURSIVE set_each(_, _)
set_each(d, indices) ==
    IF indices = {} THEN d
    ELSE LET i == CHOOSE j \in indices : \A k \in indices : j <= k
         IN  set_each(const_set(d, i, TRUE), indices \ {i})

from_iter(indices) == set_each(EMPTY, indices)

\* FromStr::from_str after the whitespace is dropped: the characters are
\* folded in order, `#` setting the cell of its position and `.` leaving it;
\* the fold stops at the first character beyond the last cell (TooLong) or
\* other than `#` and `.` (InvalidChar); an end before the last cell is
\* TooShort.
from_str_fold(w, h, chars) ==
    LET stops == {k \in 1 .. Len(chars) :
                     \/ ~ ArrayIndex_new(w, h, k - 1)
                     \/ chars[k] \notin {"#", "."}}
        first == CHOOSE k \in stops : \A j \in stops : k <= j
    IN  IF stops # {}
        THEN IF ~ ArrayIndex_new(w, h, first - 1)
             THEN [ok |-> FALSE, err |-> "TooLong"]
             ELSE [ok |-> FALSE, err |-> "InvalidChar"]
        ELSE IF Len(chars) = CELLS(w, h)
        THEN [ok |-> TRUE, grid |-> {k - 1 : k \in {j \in 1 .. Len(chars) : chars[j] = "#"}}]
        ELSE [ok |-> FALSE, err |-> "TooShort"]

is_not_whitespace(c) == c \notin {" ", "\n"}

from_str(w, h, str) ==
    from_str_fold(w, h, SelectSeq(str, is_not_whitespace))

\* The pattern of a set of cells, a line break after each row.
PatternOf(w, h, cells) ==
    [k \in 1 .. (CELLS(w, h) + h) |->
        IF k % (w + 1) = 0 THEN "\n"
        ELSE IF (k - 1 - (k \div (w + 1))) \in cells THEN "#" ELSE "."]

\* Patterns handed to FromStr: the pattern of each index set, and patterns
\* one character short, one character long and with a foreign character.
SamplePatterns(w, h) ==
    {PatternOf(w, h, c) : c \in IndexSets(w, h)}
    \cup {Tail(PatternOf(w, h, {})),
          PatternOf(w, h, {}) \o <<"#">>,
          <<"x">> \o Tail(PatternOf(w, h, {}))}

----------------------------------------------------------------------------
(* Init: the state after construction *)

\* `undo`: the operation is a translation by the negation of the vector of
\* the translation right before it.
\* `result`: the value a conversion returned, as a tuple.
\* No GridView is passed to the operation.
NoView ==
    [data |-> {}, len |-> 0, data_stride |-> 0, x |-> 0, y |-> 0, width |-> 0, height |-> 0]

\* No view of the grid has been taken.
NoTarget == [some |-> FALSE, x |-> 0, y |-> 0, width |-> 0, height |-> 0]

NoOp(name) ==
    [op |-> name, dx |-> 0, dy |-> 0, index |-> 0, value |-> FALSE, ok |-> TRUE, undo |-> FALSE,
     at |-> <<0, 0>>, other |-> NoView, rect |-> <<0, 0, 0, 0>>, on |-> NoTarget,
     result |-> <<>>]

\* No GridMask call is made in the runs of the ArrayGrid operations.
NoCall == [op |-> "none", x |-> 0, y |-> 0, seed |-> 0, adjacency |-> "none"]

NoRet == [value |-> {}, flag |-> FALSE]

\* No GridShape has been made.
NoShape == [some |-> FALSE, mask |-> {}, adjacency |-> "none"]

\* Option<T> of an iterator's item
NoItem == [some |-> FALSE, value |-> 0]

\* No iterator has been made. `min`, `max`: the Bound type of a BoundedIter;
\* `some`, `start`, `end`: its Option<RangeInc>; `bits`: the Option<NonZeroU64>
\* of a SetBitsIter as bit positions (None is the empty set) and `source` the
\* u64 it was made from; `yielded`: the values of the Some returns; `fronts`,
\* `backs`: the number of Some returns of next and of next_back; `out`: the
\* last return and `back` whether next_back gave it; `ended`: a None has been
\* returned; `spent`: calls made since the first None.
NoIter ==
    [kind |-> "none", min |-> 0, max |-> 0, some |-> FALSE, start |-> 0, end |-> 0,
     bits |-> {}, source |-> {}, yielded |-> {}, fronts |-> 0, backs |-> 0,
     out |-> NoItem, back |-> FALSE, ended |-> FALSE, spent |-> 0]

MaskIdle ==
    /\ overflow_checks = FALSE
    /\ mask = {}
    /\ call = NoCall
    /\ pc = "start"
    /\ flooded = {}
    /\ iters = 0
    /\ ret = NoRet
    /\ shape = NoShape
    /\ iter = NoIter

Init ==
    /\ \E t \in GridTypes : W = t[1] /\ H = t[2]
    /\ steps = 0
    /\ target = NoTarget
    /\ MaskIdle
    /\ \/ data = EMPTY /\ prev = EMPTY /\ last = NoOp("EMPTY")
       \/ data = FULL(W, H) /\ prev = EMPTY /\ last = NoOp("FULL")
       \/ \E words \in CtorWords(W, H) :
            /\ data = from_words(W, H, words)
            /\ prev = words
            /\ last = NoOp("from_words")
       \/ \E words \in RawWords(W, H) :
            /\ data = from_bitarray(W, H, words)
            /\ prev = words
            /\ last = NoOp("from_bitarray")
       \/ \E indices \in IndexSets(W, H) :
            /\ data = from_iter(indices)
            /\ prev = indices
            /\ last = NoOp("from_iter")
       \/ \E str \in SamplePatterns(W, H) :
            /\ from_str(W, H, str).ok
            /\ data = from_str(W, H, str).grid
            /\ prev = EMPTY
            /\ last = NoOp("from_str")

----------------------------------------------------------------------------
(* Operations of ArrayGrid *)

\* grid.translate(ArrayVector { dx, dy })
Translate ==
    /\ steps < MaxOps
    /\ \E dx \in SampleVecAxis(W), dy \in SampleVecAxis(H) :
         /\ data' = translate(W, H, data, dx, dy)
         /\ last' = [NoOp("translate") EXCEPT
                         !.dx = dx, !.dy = dy,
                         !.undo = (last.op = "translate" /\ last.dx = -dx /\ last.dy = -dy)]
    /\ prev' = data
    /\ steps' = steps + 1
    /\ UNCHANGED <<W, H, target>>
    /\ UNCHANGED maskVars

\* grid.set(index: u32, value): Err(OutOfBounds) leaves the grid alone
Set ==
    /\ steps < MaxOps
    /\ \E index \in SampleIndices(W, H), value \in BOOLEAN :
         IF ArrayIndex_new(W, H, index)
         THEN /\ data' = const_set(data, index, value)
              /\ last' = [NoOp("set") EXCEPT !.index = index, !.value = value]
         ELSE /\ data' = data
              /\ last' = [NoOp("set") EXCEPT !.index = index, !.value = value, !.ok = FALSE]
    /\ prev' = data
    /\ steps' = steps + 1
    /\ UNCHANGED <<W, H, target>>
    /\ UNCHANGED maskVars

\* grid.fill(value); grid.clear() is fill(false)
Fill ==
    /\ steps < MaxOps
    /\ \E value \in BOOLEAN :
         /\ data' = fill(W, H, data, value)
         /\ last' = [NoOp("fill") EXCEPT !.value = value]
    /\ prev' = data
    /\ steps' = steps + 1
    /\ UNCHANGED <<W, H, target>>
    /\ UNCHANGED maskVars

\* grid.negate()
Negate ==
    /\ steps < MaxOps
    /\ data' = negate(W, H, data)
    /\ last' = NoOp("negate")
    /\ prev' = data
    /\ steps' = steps + 1
    /\ UNCHANGED <<W, H, target>>
    /\ UNCHANGED maskVars

\* grid.mutate_data(f): f may leave any words in the array
MutateData ==
    /\ steps < MaxOps
    /\ \E words \in RawWords(W, H) :
         data' = mutate_data(W, H, data, words)
    /\ last' = NoOp("mutate_data")
    /\ prev' = data
    /\ steps' = steps + 1
    /\ UNCHANGED <<W, H, target>>
    /\ UNCHANGED maskVars

\* grid.extend(indices): index.set(grid, true) for each index
Extend ==
    /\ steps < MaxOps
    /\ \E indices \in {{0, CELLS(W, H) - 1}, {W - 1, W}} :
         data' = set_each(data, indices)
    /\ last' = NoOp("extend")
    /\ prev' = data
    /\ steps' = steps + 1
    /\ UNCHANGED <<W, H, target>>
    /\ UNCHANGED maskVars

Next == Translate \/ Set \/ Fill \/ Negate \/ MutateData \/ Extend

Spec == Init /\ [][Next]_vars

-----------------------------------------------------------------------------
(* Bitwise operations with a GridView placed at a point of the grid *)

\* grid.bits(): the first CELLS bits of the storage
bits(w, h, d) == {i \in d : i < CELLS(w, h)}

\* BaseGridView::new(data, data_stride, rect), data being len bits
GridView_new(view_data, len, data_stride, x, y, width, height) ==
    [data |-> view_data, len |-> len, data_stride |-> data_stride,
     x |-> x, y |-> y, width |-> width, height |-> height]

\* grid.as_view()
as_view(w, h, d) == GridView_new(bits(w, h, d), CELLS(w, h), w, 0, 0, w, h)

\* grid.view(rect) for an ArrayRect<W, H> at (x, y) of size width x height
view(w, h, d, x, y, width, height) ==
    GridView_new(bits(w, h, d), CELLS(w, h), w, x, y, width, height)

\* ArraySize::<W, H>::try_from(size): both lengths in 1 ..= MAX
ArraySize_try_from(w, h, width, height) ==
    width >= 1 /\ width <= w /\ height >= 1 /\ height <= h

\* ArrayRect::<W, H>::new(point, size) returns Ok
ArrayRect_new_SizeOnly(w, h, px, py, width, height) ==
    ArraySize_try_from(w, h, width, height)

ArrayRect_new(w, h, px, py, width, height) ==
    /\ ArraySize_try_from(w, h, width, height)
    /\ ~(px + width > w \/ py + height > h)

\* The rows a view yields: data.chunks(data_stride).skip(y).take(height),
\* row j being the chunk's bits x .. x + width, given by their positions in data
chunks_count(len, data_stride) == (len + data_stride - 1) \div data_stride

rows_count(v) ==
    LET left == chunks_count(v.len, v.data_stride) - v.y
    IN  IF left <= 0 THEN 0 ELSE IF left < v.height THEN left ELSE v.height

row_bit_ColumnOnly(v, j, i) == j * v.data_stride + (v.x + i)

row_bit(v, j, i) == (v.y + j) * v.data_stride + (v.x + i)

\* The closures of bitand_at, bitor_at and bitxor_at on one bit
apply_op(op, dst, src) ==
    IF op = "bitand_at" THEN dst /\ src
    ELSE IF op = "bitor_at" THEN dst \/ src
    ELSE dst # src

\* ArrayGrid::bitwise_op_at: [ok, data]
bitwise_op_at(w, h, d, other, at, op) ==
    IF ~ArrayRect_new(w, h, at[1], at[2], other.width, other.height)
    THEN [ok |-> FALSE, data |-> d]
    ELSE LET dst == GridView_new(bits(w, h, d), CELLS(w, h), w,
                                 at[1], at[2], other.width, other.height)
             zipped == IF rows_count(dst) < rows_count(other)
                       THEN rows_count(dst) ELSE rows_count(other)
             pairs == (0 .. (zipped - 1)) \X (0 .. (other.width - 1))
             written == {row_bit(dst, p[1], p[2]) : p \in pairs}
             ones == {row_bit(dst, p[1], p[2]) :
                         p \in {q \in pairs :
                                   apply_op(op, row_bit(dst, q[1], q[2]) \in d,
                                            row_bit(other, q[1], q[2]) \in other.data)}}
         IN  [ok |-> TRUE, data |-> (d \ written) \cup ones]

\* The grid type of the views passed in, and what it holds
SourceType == <<4, 3>>

SourceData == {{0, 2, 5, 7, 8, 10, 11}, {1, 6}}

\* Views passed as `other`: whole grids and parts of one, of another stride
SourceViews(w, h) ==
    {as_view(w, h, FULL(w, h))}
    \cup {as_view(SourceType[1], SourceType[2], d) : d \in SourceData}
    \cup {view(SourceType[1], SourceType[2], d, r[1], r[2], r[3], r[4]) :
             d \in SourceData, r \in {<<1, 1, 2, 2>>, <<1, 0, 3, 1>>, <<3, 2, 1, 1>>}}

\* Points of ArrayPoint<W, H>
SamplePoints(w, h) ==
    {<<0, 0>>, <<1, 0>>, <<w - 3, h - 1>>, <<w - 1, h - 1>>}

\* Bitwise operations applied to one grid
MaxBitwiseOps == 1

\* grid.bitand_at(other, at)
BitAndAt ==
    /\ steps < MaxBitwiseOps
    /\ \E other \in SourceViews(W, H), at \in SamplePoints(W, H) :
         LET out == bitwise_op_at(W, H, data, other, at, "bitand_at")
         IN  /\ data' = out.data
             /\ last' = [NoOp("bitand_at") EXCEPT !.at = at, !.other = other, !.ok = out.ok]
    /\ prev' = data
    /\ steps' = steps + 1
    /\ UNCHANGED <<W, H, target>>
    /\ UNCHANGED maskVars

\* grid.bitor_at(other, at)
BitOrAt ==
    /\ steps < MaxBitwiseOps
    /\ \E other \in SourceViews(W, H), at \in SamplePoints(W, H) :
         LET out == bitwise_op_at(W, H, data, other, at, "bitor_at")
         IN  /\ data' = out.data
             /\ last' = [NoOp("bitor_at") EXCEPT !.at = at, !.other = other, !.ok = out.ok]
    /\ prev' = data
    /\ steps' = steps + 1
    /\ UNCHANGED <<W, H, target>>
    /\ UNCHANGED maskVars

\* grid.bitxor_at(other, at)
BitXorAt ==
    /\ steps < MaxBitwiseOps
    /\ \E other \in SourceViews(W, H), at \in SamplePoints(W, H) :
         LET out == bitwise_op_at(W, H, data, other, at, "bitxor_at")
         IN  /\ data' = out.data
             /\ last' = [NoOp("bitxor_at") EXCEPT !.at = at, !.other = other, !.ok = out.ok]
    /\ prev' = data
    /\ steps' = steps + 1
    /\ UNCHANGED <<W, H, target>>
    /\ UNCHANGED maskVars

NextBitwise == BitAndAt \/ BitOrAt \/ BitXorAt

SpecBitwise == Init /\ [][NextBitwise]_vars

----------------------------------------------------------------------------
(* u64 arithmetic on sets of bit positions: src/ext/bits/from_range.rs *)

U64_BITS == 64

U64Bits == 0 .. (U64_BITS - 1)

\* a << n and a >> n for n < 64
Shl(a, n) == {i + n : i \in {j \in a : j + n < U64_BITS}}

Shr(a, n) == {i - n : i \in {j \in a : j - n >= 0}}

\* !a
Not64(a) == U64Bits \ a

\* u64::MAX.unbounded_shr(n): 0 when n >= 64
unbounded_shr_max(n) == IF n >= U64_BITS THEN {} ELSE Shr(U64Bits, n)

\* generate_mask_u64(start..end)
generate_mask_u64(start, end) ==
    Shl(U64Bits, start) \cap unbounded_shr_max(U64_BITS - end)

\* u64::from_bit_range(start..): EXCLUSIVE_MAX is 64
from_bit_range_from(start) == generate_mask_u64(start, U64_BITS)

\* u64::from_bit_range(..end): INCLUSIVE_MIN is 0
from_bit_range_to(end) == generate_mask_u64(0, end)

\* The sum of two naturals given by their bits: bit i of the sum is
\* a_i + b_i + carry_i, and a carry enters bit i when some lower bit j
\* generates one (a_j and b_j) that every bit between passes on (a_k or b_k).
add_bits(a, b, width) ==
    LET carry(i) == \E j \in 0 .. (i - 1) :
                        /\ j \in a /\ j \in b
                        /\ \A k \in (j + 1) .. (i - 1) : k \in a \/ k \in b
        bit(x, i) == IF i \in x THEN 1 ELSE 0
    IN  {i \in 0 .. (width - 1) :
            (bit(a, i) + bit(b, i) + (IF carry(i) THEN 1 ELSE 0)) % 2 = 1}

\* The product of two u64 at full width (128 bits): the shifted copies of a,
\* one for each 1 bit of b, added up.
RECURSIVE wide_mul(_, _)
wide_mul(a, b) ==
    IF b = {} THEN {}
    ELSE LET i == CHOOSE j \in b : \A k \in b : j <= k
         IN  add_bits({j + i : j \in a}, wide_mul(a, b \ {i}), 2 * U64_BITS)

\* a * b on u64: the product overflows when it needs more than 64 bits; the
\* wrapped value is its low 64 bits.
u64_mul(a, b) ==
    LET wide == wide_mul(a, b)
    IN  [overflow |-> \E i \in wide : i >= U64_BITS,
         value |-> wide \cap U64Bits]

----------------------------------------------------------------------------
(* GridMask: src/grid/mask.rs, src/grid/adjacency.rs *)

COLS == 8

ROWS == 8

\* 0x0101_0101_0101_0101
COL_FIRST == {COLS * r : r \in 0 .. (ROWS - 1)}

GridMask_EMPTY == {}

GridMask_FULL == Not64({})

\* u64::from_bit_range(..shift_pos) * Self::COL_FIRST, for each shift
col_mask_east == [shift \in 1 .. 7 |-> u64_mul(from_bit_range_to(shift), COL_FIRST)]

\* u64::from_bit_range(start_pos..) * Self::COL_FIRST with start_pos = 8 - shift
col_mask_west == [shift \in 1 .. 7 |-> u64_mul(from_bit_range_from(8 - shift), COL_FIRST)]

\* The outcome of an expression: a value, or a panic.
Value(v) == [panic |-> FALSE, value |-> v]

Panic == [panic |-> TRUE, value |-> {}]

\* `*` on u64: panics on overflow when overflow checks are on, wraps otherwise
mul_outcome(product, checks) ==
    IF product.overflow /\ checks THEN Panic ELSE Value(product.value)

\* GridMask::translate
GridMask_translate(m, x, y, checks) ==
    IF y < -7 \/ y > 7 THEN Value(GridMask_EMPTY)
    ELSE LET mask_shifted_y ==
                 IF y >= 1 THEN Shl(m, y * COLS)
                 ELSE IF y <= -1 THEN Shr(m, (-y) * COLS)
                 ELSE m
         IN  IF x >= 1 /\ x <= 7
             THEN LET col_mask == mul_outcome(col_mask_east[x], checks)
                  IN  IF col_mask.panic THEN Panic
                      ELSE Value(Shl(mask_shifted_y, x) \cap Not64(col_mask.value))
             ELSE IF x >= -7 /\ x <= -1
             THEN LET col_mask == mul_outcome(col_mask_west[-x], checks)
                  IN  IF col_mask.panic THEN Panic
                      ELSE Value(Shr(mask_shifted_y, -x) \cap Not64(col_mask.value))
             ELSE IF x = 0 THEN Value(mask_shifted_y)
             ELSE Value(GridMask_EMPTY)

\* GridVector::NORTH, SOUTH, EAST, WEST
NORTH == <<0, -1>>
SOUTH == <<0, 1>>
EAST == <<1, 0>>
WEST == <<-1, 0>>

\* Cardinal::grow without the mask itself in the union: north | south | east | west
Cardinal_grow_NoSelf(m, checks) ==
    LET north == GridMask_translate(m, NORTH[1], NORTH[2], checks)
        south == GridMask_translate(m, SOUTH[1], SOUTH[2], checks)
        east == GridMask_translate(m, EAST[1], EAST[2], checks)
        west == GridMask_translate(m, WEST[1], WEST[2], checks)
    IN  IF north.panic \/ south.panic \/ east.panic \/ west.panic THEN Panic
        ELSE Value(north.value \cup south.value \cup east.value \cup west.value)

\* Cardinal::grow: mask | north | south | east | west
Cardinal_grow(m, checks) ==
    LET north == GridMask_translate(m, NORTH[1], NORTH[2], checks)
        south == GridMask_translate(m, SOUTH[1], SOUTH[2], checks)
        east == GridMask_translate(m, EAST[1], EAST[2], checks)
        west == GridMask_translate(m, WEST[1], WEST[2], checks)
    IN  IF north.panic \/ south.panic \/ east.panic \/ west.panic THEN Panic
        ELSE Value(m \cup north.value \cup south.value \cup east.value \cup west.value)

\* Octile::grow: vertical = mask | n | s; vertical | east | west
Octile_grow(m, checks) ==
    LET n == GridMask_translate(m, NORTH[1], NORTH[2], checks)
        s == GridMask_translate(m, SOUTH[1], SOUTH[2], checks)
    IN  IF n.panic \/ s.panic THEN Panic
        ELSE LET vertical == m \cup n.value \cup s.value
                 east == GridMask_translate(vertical, EAST[1], EAST[2], checks)
                 west == GridMask_translate(vertical, WEST[1], WEST[2], checks)
             IN  IF east.panic \/ west.panic THEN Panic
                 ELSE Value(vertical \cup east.value \cup west.value)

\* A::grow for the adjacency rule A
grow(adjacency, m, checks) ==
    IF adjacency = "Cardinal" THEN Cardinal_grow(m, checks) ELSE Octile_grow(m, checks)

\* The loop of GridMask::connected, from the frontier `frontier`: grow,
\* intersect with the mask, until nothing is added.
RECURSIVE connected_loop(_, _, _, _)
connected_loop(adjacency, m, frontier, checks) ==
    LET pass(out) ==
            IF out.panic THEN Panic
            ELSE IF out.value \cap m = frontier THEN Value(frontier)
            ELSE connected_loop(adjacency, m, out.value \cap m, checks)
    IN  CHOOSE result \in {pass(out) : out \in {grow(adjacency, frontier, checks)}} : TRUE

\* GridMask::connected for a seed that is a bit index
GridMask_connected(adjacency, m, seed, checks) ==
    IF {seed} \cap m = GridMask_EMPTY THEN Value(GridMask_EMPTY)
    ELSE connected_loop(adjacency, m, {seed} \cap m, checks)

\* seed.to_grid_mask() for a BitIndexU64
to_grid_mask(seed) == {seed}

\* BitIndexU64::from_first_set: the lowest set bit (the caller handles None)
from_first_set(val) == CHOOSE i \in val : \A j \in val : i <= j

----------------------------------------------------------------------------
(* Inputs of the GridMask calls *)

\* The bit of cell (x, y): y * 8 + x
Cell(x, y) == y * COLS + x

\* Cells on both sides of the row ends of the first rows: subsets of them are
\* the shapes whose neighbours a horizontal wrap would confuse.
ClusterCells == {Cell(0, 0), Cell(1, 0), Cell(7, 0), Cell(0, 1), Cell(1, 1), Cell(7, 1), Cell(0, 2)}

Column(x) == {Cell(x, y) : y \in 0 .. (ROWS - 1)}

\* Receivers: every single cell, every subset of the cluster, the full mask,
\* the outer columns, two far corners, a 2x2 block in the middle.
SampleMasks ==
    {{i} : i \in U64Bits}
    \cup (SUBSET ClusterCells)
    \cup {GridMask_FULL, Column(0), Column(7), {Cell(0, 0), Cell(7, 7)},
          {Cell(3, 3), Cell(4, 3), Cell(3, 4), Cell(4, 4)}}

\* Components of a GridVector: every in-range shift and VecSlack beyond.
MaskVecAxis == (-(7 + VecSlack)) .. (7 + VecSlack)

\* Seeds of connected: the cluster, the middle block and the last cell.
SampleSeeds == ClusterCells \cup {Cell(3, 3), Cell(7, 7)}

Adjacencies == {"Cardinal", "Octile"}

----------------------------------------------------------------------------
(* Calls on a GridMask *)

\* No ArrayGrid is constructed in the runs of the GridMask calls.
ArrayIdle ==
    /\ W = 0
    /\ H = 0
    /\ data = {}
    /\ prev = {}
    /\ last = NoOp("none")
    /\ steps = 0
    /\ target = NoTarget

InitMask ==
    /\ ArrayIdle
    /\ overflow_checks \in BOOLEAN
    /\ mask \in SampleMasks
    /\ call = NoCall
    /\ pc = "start"
    /\ flooded = {}
    /\ iters = 0
    /\ ret = NoRet
    /\ shape = NoShape
    /\ iter = NoIter

\* mask.translate(GridVector { x, y })
MaskTranslate ==
    /\ pc = "start"
    /\ \E x \in MaskVecAxis, y \in MaskVecAxis :
         LET out == GridMask_translate(mask, x, y, overflow_checks)
         IN  /\ call' = [NoCall EXCEPT !.op = "translate", !.x = x, !.y = y]
             /\ pc' = IF out.panic THEN "panicked" ELSE "returned"
             /\ ret' = [NoRet EXCEPT !.value = out.value]
    /\ UNCHANGED <<overflow_checks, mask, flooded, iters>>
    /\ UNCHANGED arrayVars
    /\ UNCHANGED <<shape, iter>>

\* mask.grow::<A>()
MaskGrow ==
    /\ pc = "start"
    /\ \E adjacency \in Adjacencies :
         LET out == grow(adjacency, mask, overflow_checks)
         IN  /\ call' = [NoCall EXCEPT !.op = "grow", !.adjacency = adjacency]
             /\ pc' = IF out.panic THEN "panicked" ELSE "returned"
             /\ ret' = [NoRet EXCEPT !.value = out.value]
    /\ UNCHANGED <<overflow_checks, mask, flooded, iters>>
    /\ UNCHANGED arrayVars
    /\ UNCHANGED <<shape, iter>>

\* mask.connected::<A>(seed), up to the loop: an unset seed returns the empty
\* mask at once
MaskConnected ==
    /\ pc = "start"
    /\ \E seed \in SampleSeeds, adjacency \in Adjacencies :
         LET first == to_grid_mask(seed) \cap mask
         IN  /\ call' = [NoCall EXCEPT !.op = "connected", !.seed = seed, !.adjacency = adjacency]
             /\ flooded' = first
             /\ pc' = IF first = GridMask_EMPTY THEN "returned" ELSE "loop"
    /\ ret' = NoRet
    /\ UNCHANGED <<overflow_checks, mask, iters>>
    /\ UNCHANGED arrayVars
    /\ UNCHANGED <<shape, iter>>

\* mask.is_contiguous::<A>(): false for the empty mask, else connected from the
\* first set bit, compared with the mask when it returns
MaskIsContiguous ==
    /\ pc = "start"
    /\ \E adjacency \in Adjacencies :
         IF mask = GridMask_EMPTY
         THEN /\ call' = [NoCall EXCEPT !.op = "is_contiguous", !.adjacency = adjacency]
              /\ flooded' = flooded
              /\ pc' = "returned"
         ELSE /\ call' = [NoCall EXCEPT !.op = "is_contiguous", !.adjacency = adjacency,
                                        !.seed = from_first_set(mask)]
              /\ flooded' = to_grid_mask(from_first_set(mask)) \cap mask
              /\ pc' = "loop"
    /\ ret' = NoRet
    /\ UNCHANGED <<overflow_checks, mask, iters>>
    /\ UNCHANGED arrayVars
    /\ UNCHANGED <<shape, iter>>

\* One pass of the loop of connected: grow, intersect with the mask, stop when
\* nothing was added
ConnectedPass ==
    /\ pc = "loop"
    /\ iters' = iters + 1
    /\ LET out == grow(call.adjacency, flooded, overflow_checks)
           grown == out.value \cap mask
       IN  IF out.panic
           THEN /\ pc' = "panicked"
                /\ UNCHANGED <<flooded, ret>>
           ELSE IF grown = flooded
           THEN /\ pc' = "returned"
                /\ ret' = [value |-> flooded,
                           flag |-> call.op = "is_contiguous" /\ flooded = mask]
                /\ UNCHANGED flooded
           ELSE /\ flooded' = grown
                /\ UNCHANGED <<pc, ret>>
    /\ UNCHANGED <<overflow_checks, mask, call>>
    /\ UNCHANGED arrayVars
    /\ UNCHANGED <<shape, iter>>

NextMask == MaskTranslate \/ MaskGrow \/ MaskConnected \/ MaskIsContiguous \/ ConnectedPass

SpecMask == InitMask /\ [][NextMask]_vars

-----------------------------------------------------------------------------
(* GridShape<A>: a GridMask checked to be contiguous under A *)

\* Operations on one shape, the constructor included
MaxShapeOps == 3

\* Result<GridShape<A>, Discontiguous>: Ok(shape of v), Err(Discontiguous(v)),
\* or no result because the call panicked
Ok(v) == [panic |-> FALSE, ok |-> TRUE, value |-> v]

Discontiguous(v) == [panic |-> FALSE, ok |-> FALSE, value |-> v]

ShapePanic == [panic |-> TRUE, ok |-> FALSE, value |-> {}]

\* GridShape::FULL
GridShape_FULL == GridMask_FULL

\* u64::from_bit_range(start..=end)
from_bit_range_inclusive(start, end) == generate_mask_u64(start, end + 1)

\* GridMask::from(rect) for the rectangle at (x, y) of size w x h
GridMask_from_rect(x, y, w, h) ==
    LET x2 == x + w - 1
        y2 == y + h - 1
        row_mask == from_bit_range_inclusive(x, x2)
    IN  UNION {Shl(row_mask, row * ROWS) : row \in y .. y2}

\* GridShape::from(rect): the mask of the rectangle, wrapped unchecked
GridShape_from_rect(x, y, w, h) == GridMask_from_rect(x, y, w, h)

\* GridShape::<A>::try_from(mask)
GridShape_try_from(adjacency, m, checks) ==
    IF m = GridMask_EMPTY THEN Discontiguous(m)
    ELSE LET connected == GridMask_connected(adjacency, m, from_first_set(m), checks)
         IN  IF connected.panic THEN ShapePanic
             ELSE IF connected.value = m THEN Ok(m)
             ELSE Discontiguous(m)

\* GrowableSeed::<Adj>::connect, the growth step being the rule's grow
GrowableSeed_connect(adjacency, seed, m, checks) ==
    connected_loop(adjacency, m, m \cap to_grid_mask(seed), checks)

\* GridShape::<A>::contiguous(grid, seed)
GridShape_contiguous(adjacency, grid, seed, checks) ==
    IF ~const_get(grid, seed) THEN Discontiguous(grid)
    ELSE LET connected == GrowableSeed_connect(adjacency, seed, grid, checks)
         IN  IF connected.panic THEN ShapePanic ELSE Ok(connected.value)

\* shape.translate(GridVector { x, y })
GridShape_translate(adjacency, m, x, y, checks) ==
    LET moved == GridMask_translate(m, x, y, checks)
    IN  IF moved.panic THEN ShapePanic
        ELSE GridShape_try_from(adjacency, moved.value, checks)

\* shape.cast::<A2>()
GridShape_cast(adjacency2, m, checks) == GridShape_try_from(adjacency2, m, checks)

\* Rectangles GridRect::new accepts: x + w <= 8 and y + h <= 8, sizes from 1
SampleRects ==
    {r \in {0, 3, 6, 7} \X {0, 6, 7} \X {1, 2, 8} \X {1, 2, 8} :
        r[1] + r[3] <= COLS /\ r[2] + r[4] <= ROWS}

ShapeVecAxis == -1 .. 1

InitShape ==
    /\ ArrayIdle
    /\ overflow_checks \in BOOLEAN
    /\ mask = GridMask_EMPTY
    /\ call = NoCall
    /\ pc = "start"
    /\ flooded = {}
    /\ iters = 0
    /\ ret = NoRet
    /\ shape = NoShape
    /\ iter = NoIter

\* What a call that makes a shape leaves behind: the result, and the new shape
\* when there is one (a shape is Copy: the receiver of a failed call is kept).
ShapeResult(op, adjacency, seed, arg, out) ==
    /\ steps' = steps + 1
    /\ mask' = arg
    /\ call' = [NoCall EXCEPT !.op = op, !.adjacency = adjacency, !.seed = seed]
    /\ pc' = IF out.panic THEN "panicked" ELSE "returned"
    /\ ret' = [value |-> out.value, flag |-> out.ok]
    /\ shape' = IF out.ok
                THEN [some |-> TRUE, mask |-> out.value, adjacency |-> adjacency]
                ELSE shape
    /\ UNCHANGED <<W, H, data, prev, last, target, overflow_checks, flooded, iters, iter>>

\* GridShape::<A>::try_from(m); TryFrom<u64>, TryFrom<[bool; 64]> and
\* from_pattern make the mask and call it
ShapeTryFrom ==
    /\ pc = "start"
    /\ \E adjacency \in Adjacencies, m \in SampleMasks \cup {GridMask_EMPTY} :
         ShapeResult("try_from", adjacency, 0, m,
                     GridShape_try_from(adjacency, m, overflow_checks))

\* GridShape::<A>::contiguous(grid, seed)
ShapeContiguous ==
    /\ pc = "start"
    /\ \E adjacency \in Adjacencies, grid \in SampleMasks, seed \in SampleSeeds :
         ShapeResult("contiguous", adjacency, seed, grid,
                     GridShape_contiguous(adjacency, grid, seed, overflow_checks))

\* GridShape::<A>::from(rect)
ShapeFromRect ==
    /\ pc = "start"
    /\ \E adjacency \in Adjacencies, r \in SampleRects :
         LET m == GridShape_from_rect(r[1], r[2], r[3], r[4])
         IN  ShapeResult("from_rect", adjacency, 0, m, Ok(m))

\* GridShape::<A>::FULL
ShapeFull ==
    /\ pc = "start"
    /\ \E adjacency \in Adjacencies :
         ShapeResult("FULL", adjacency, 0, GridShape_FULL, Ok(GridShape_FULL))

\* shape.translate(vector)
ShapeTranslate ==
    /\ pc = "returned"
    /\ shape.some
    /\ steps < MaxShapeOps
    /\ \E x \in ShapeVecAxis, y \in ShapeVecAxis :
         ShapeResult("translate", shape.adjacency, 0, shape.mask,
                     GridShape_translate(shape.adjacency, shape.mask, x, y, overflow_checks))

\* shape.cast::<A2>()
ShapeCast ==
    /\ pc = "returned"
    /\ shape.some
    /\ steps < MaxShapeOps
    /\ \E adjacency2 \in Adjacencies :
         ShapeResult("cast", adjacency2, 0, shape.mask,
                     GridShape_cast(adjacency2, shape.mask, overflow_checks))

NextShape ==
    ShapeTryFrom \/ ShapeContiguous \/ ShapeFromRect \/ ShapeFull \/ ShapeTranslate \/ ShapeCast

SpecShape == InitShape /\ [][NextShape]_vars

-----------------------------------------------------------------------------
(* GridView and GridViewMut: a rectangle of a grid's bits, addressed locally *)

\* Views taken one inside another, the first included
MaxViewOps == 2

U16_MAX == 65535

\* `+` on u16: panics on overflow when overflow checks are on, wraps otherwise
u16_add(a, b, checks) ==
    IF a + b > U16_MAX
    THEN IF checks THEN Panic ELSE Value((a + b) % (U16_MAX + 1))
    ELSE Value(a + b)

\* ArrayPoint::<W, H>::new(x, y) returns Ok
ArrayPoint_new(w, h, x, y) == x < w /\ y < h

\* ArrayRect::<W, H>::new((x, y), (width, height)) with u16 arguments: the point
\* and the size are converted first
ArrayRect_try_new(w, h, x, y, width, height) ==
    /\ ArrayPoint_new(w, h, x, y)
    /\ ArrayRect_new(w, h, x, y, width, height)

\* The view with the rect at (x, y) of size width x height
Target(x, y, width, height) ==
    [some |-> TRUE, x |-> x, y |-> y, width |-> width, height |-> height]

\* Results of the calls on a view: a panic, Err(OutOfBounds) or Ok(value)
ViewPanic == [panic |-> TRUE, ok |-> FALSE, value |-> 0]

ViewErr == [panic |-> FALSE, ok |-> FALSE, value |-> 0]

ViewOk(v) == [panic |-> FALSE, ok |-> TRUE, value |-> v]

\* GridGetIndex<GridView> for Rect<Point<u16>, Size<u16>>: view.get(rect);
\* the same code serves GridViewMut
GridView_get_rect(t, r, checks) ==
    LET x_end == u16_add(r[1], r[3], checks)
        y_end == u16_add(r[2], r[4], checks)
        x == u16_add(t.x, r[1], checks)
        y == u16_add(t.y, r[2], checks)
    IN  IF r[3] = 0 \/ r[4] = 0 THEN ViewErr
        ELSE IF x_end.panic THEN ViewPanic
        ELSE IF x_end.value > t.width THEN ViewErr
        ELSE IF y_end.panic THEN ViewPanic
        ELSE IF y_end.value > t.height THEN ViewErr
        ELSE IF x.panic \/ y.panic THEN ViewPanic
        ELSE ViewOk(Target(x.value, y.value, r[3], r[4]))

\* BaseGridView::translate_point_to_index, data_stride being the grid's W
translate_point_to_index_NoOrigin(t, data_stride, lx, ly, checks) ==
    IF lx < t.width /\ ly < t.height
    THEN ViewOk(ly * data_stride + lx)
    ELSE ViewErr

translate_point_to_index(t, data_stride, lx, ly, checks) ==
    IF lx < t.width /\ ly < t.height
    THEN LET y == u16_add(t.y, ly, checks)
             x == u16_add(t.x, lx, checks)
         IN  IF y.panic \/ x.panic THEN ViewPanic
             ELSE ViewOk(y.value * data_stride + x.value)
    ELSE ViewErr

\* view.get(Point { x: lx, y: ly }): target.data[idx] panics past the data
GridView_get_point(w, h, d, t, lx, ly, checks) ==
    LET idx == translate_point_to_index(t, w, lx, ly, checks)
    IN  IF idx.panic \/ ~idx.ok THEN idx
        ELSE IF idx.value >= CELLS(w, h) THEN ViewPanic
        ELSE ViewOk(idx.value \in bits(w, h, d))

\* view.set(Point { x: lx, y: ly }, value): the new data of the grid
GridViewMut_set_point(w, h, d, t, lx, ly, value, checks) ==
    LET idx == translate_point_to_index(t, w, lx, ly, checks)
    IN  IF idx.panic \/ ~idx.ok THEN idx
        ELSE IF idx.value >= CELLS(w, h) THEN ViewPanic
        ELSE ViewOk(const_set(d, idx.value, value))

\* view.get(i: usize): target.data.get(i)
GridView_get_index(w, h, d, t, i) ==
    IF i < CELLS(w, h) THEN ViewOk(i \in bits(w, h, d)) ELSE ViewErr

\* view.set(i: usize, value): the new data of the grid
GridViewMut_set_index(w, h, d, t, i, value) ==
    IF i < CELLS(w, h) THEN ViewOk(const_set(d, i, value)) ELSE ViewErr

\* u16 values around a length n
PointSamples(n) == {0, 1, n, U16_MAX}

SizeSamples(n) == {0, 1, 2, n, U16_MAX}

\* Rects asked of a view
SubRects == {0, 1, U16_MAX} \X {0, 1, U16_MAX} \X {0, 1, 2} \X {1, 2}

\* Local points and indices asked of a view
LocalPoints == {0, 1, 2, U16_MAX} \X {0, 1, 2}

ViewIndices(w, h) == {0, 1, w + 1, CELLS(w, h) - 1, CELLS(w, h)}

InitView ==
    /\ \E t \in GridTypes : W = t[1] /\ H = t[2]
    /\ \E words \in {FULL(W, H), {i \in AllBits(W, H) : i % 2 = 0}, {W + 1}} :
         /\ data = from_words(W, H, words)
         /\ prev = words
    /\ last = NoOp("from_words")
    /\ steps = 0
    /\ target = NoTarget
    /\ overflow_checks \in BOOLEAN
    /\ mask = {}
    /\ call = NoCall
    /\ pc = "start"
    /\ flooded = {}
    /\ iters = 0
    /\ ret = NoRet
    /\ shape = NoShape
    /\ iter = NoIter

\* grid.view(ArrayRect::new((x, y), (width, height))?) on the new grid
ViewNew ==
    /\ pc = "start"
    /\ steps = 0
    /\ \E x \in PointSamples(W), y \in PointSamples(H) \ {1},
          width \in SizeSamples(W), height \in SizeSamples(H) \ {2} :
         LET ok == ArrayRect_try_new(W, H, x, y, width, height)
         IN  /\ target' = IF ok THEN Target(x, y, width, height) ELSE target
             /\ last' = [NoOp("view") EXCEPT
                             !.rect = <<x, y, width, height>>, !.ok = ok, !.on = target]
    /\ steps' = steps + 1
    /\ prev' = data
    /\ UNCHANGED <<W, H, data>>
    /\ UNCHANGED maskVars

\* view.get(rect): the view inside the view at hand
ViewGetRect ==
    /\ pc = "start"
    /\ target.some
    /\ steps < MaxViewOps
    /\ \E r \in SubRects :
         LET out == GridView_get_rect(target, r, overflow_checks)
         IN  /\ target' = IF out.ok THEN out.value ELSE target
             /\ last' = [NoOp("get_rect") EXCEPT !.rect = r, !.ok = out.ok, !.on = target]
             /\ pc' = IF out.panic THEN "panicked" ELSE pc
    /\ steps' = steps + 1
    /\ prev' = data
    /\ UNCHANGED <<W, H, data>>
    /\ UNCHANGED <<overflow_checks, mask, call, flooded, iters, ret, shape, iter>>

\* view.get(Point { x, y }), the last call of the run
ViewGetPoint ==
    /\ pc = "start"
    /\ target.some
    /\ \E p \in LocalPoints :
         LET out == GridView_get_point(W, H, data, target, p[1], p[2], overflow_checks)
         IN  /\ last' = [NoOp("get_point") EXCEPT
                             !.at = p, !.ok = out.ok, !.on = target,
                             !.value = (out.ok /\ out.value)]
             /\ pc' = IF out.panic THEN "panicked" ELSE "returned"
    /\ prev' = data
    /\ UNCHANGED <<W, H, data, steps, target>>
    /\ UNCHANGED <<overflow_checks, mask, call, flooded, iters, ret, shape, iter>>

\* view.set(Point { x, y }, value), the last call of the run
ViewSetPoint ==
    /\ pc = "start"
    /\ target.some
    /\ \E p \in LocalPoints, value \in BOOLEAN :
         LET out == GridViewMut_set_point(W, H, data, target, p[1], p[2], value,
                                          overflow_checks)
         IN  /\ data' = IF out.ok THEN out.value ELSE data
             /\ last' = [NoOp("set_point") EXCEPT
                             !.at = p, !.ok = out.ok, !.on = target, !.value = value]
             /\ pc' = IF out.panic THEN "panicked" ELSE "returned"
    /\ prev' = data
    /\ UNCHANGED <<W, H, steps, target>>
    /\ UNCHANGED <<overflow_checks, mask, call, flooded, iters, ret, shape, iter>>

\* view.get(i: usize), the last call of the run
ViewGetIndex ==
    /\ pc = "start"
    /\ target.some
    /\ \E i \in ViewIndices(W, H) :
         LET out == GridView_get_index(W, H, data, target, i)
         IN  /\ last' = [NoOp("get_index") EXCEPT
                             !.index = i, !.ok = out.ok, !.on = target,
                             !.value = (out.ok /\ out.value)]
             /\ pc' = "returned"
    /\ prev' = data
    /\ UNCHANGED <<W, H, data, steps, target>>
    /\ UNCHANGED <<overflow_checks, mask, call, flooded, iters, ret, shape, iter>>

\* view.set(i: usize, value), the last call of the run
ViewSetIndex ==
    /\ pc = "start"
    /\ target.some
    /\ \E i \in ViewIndices(W, H), value \in BOOLEAN :
         LET out == GridViewMut_set_index(W, H, data, target, i, value)
         IN  /\ data' = IF out.ok THEN out.value ELSE data
             /\ last' = [NoOp("set_index") EXCEPT
                             !.index = i, !.ok = out.ok, !.on = target, !.value = value]
             /\ pc' = "returned"
    /\ prev' = data
    /\ UNCHANGED <<W, H, steps, target>>
    /\ UNCHANGED <<overflow_checks, mask, call, flooded, iters, ret, shape, iter>>

NextView ==
    ViewNew \/ ViewGetRect \/ ViewGetPoint \/ ViewSetPoint \/ ViewGetIndex \/ ViewSetIndex

SpecView == InitView /\ [][NextView]_vars

----------------------------------------------------------------------------
(* What the operations are meant to compute, stated on cells *)

InGrid(w, h, x, y) == x >= 0 /\ x < w /\ y >= 0 /\ y < h

\* The cells of a w x h grid set in d, as <<x, y>> pairs.
SetCells(w, h, d) ==
    {p \in (0 .. (w - 1)) \X (0 .. (h - 1)) : const_get(d, from_point(w, p[1], p[2]))}

\* The cells set after moving every set cell by (dx, dy) and dropping those
\* that leave the grid.
MovedCells(w, h, cells, dx, dy) ==
    {p \in (0 .. (w - 1)) \X (0 .. (h - 1)) : <<p[1] - dx, p[2] - dy>> \in cells}

Saturates(w, h, dx, dy) == Abs(dx) >= w \/ Abs(dy) >= h

\* Two cells of the 8x8 grid are neighbours under the adjacency rule.
Adjacent(adjacency, a, b) ==
    LET ax == a % COLS
        ay == a \div COLS
        bx == b % COLS
        by == b \div COLS
    IN  IF adjacency = "Cardinal"
        THEN Abs(ax - bx) + Abs(ay - by) = 1
        ELSE a # b /\ Abs(ax - bx) <= 1 /\ Abs(ay - by) <= 1

\* The cells of m reachable from the cells of `reached` by paths of
\* neighbouring cells of m.
RECURSIVE Reachable(_, _, _)
Reachable(adjacency, m, reached) ==
    LET more == {c \in m : \E r \in reached : Adjacent(adjacency, r, c)}
    IN  IF more \subseteq reached THEN reached
        ELSE Reachable(adjacency, m, reached \cup more)

\* The component of m that holds the seed; empty when the seed is not set.
Component(adjacency, m, seed) ==
    IF seed \in m THEN Reachable(adjacency, m, {seed}) ELSE {}

\* The 8x8 mask m moved by (x, y), cells leaving the grid dropped.
MovedMask(m, x, y) ==
    {c \in U64Bits :
        LET sx == (c % COLS) - x
            sy == (c \div COLS) - y
        IN  InGrid(COLS, ROWS, sx, sy) /\ Cell(sx, sy) \in m}

----------------------------------------------------------------------------
(* Claims on ArrayGrid, checked under Spec *)

\* C1: after any construction and any sequence of mutating operations, every
\* storage bit at a flat index >= W * H is 0.
C1_TailInvariant == \A i \in data : i < CELLS(W, H)

\* C2: after translate((dx, dy)) with |dx| < W and |dy| < H, a cell (x, y) is set
\* if and only if (x - dx, y - dy) lies inside the grid and was set before.
C2_TranslateMovesCells ==
    (last.op = "translate" /\ ~ Saturates(W, H, last.dx, last.dy))
        => SetCells(W, H, data) = MovedCells(W, H, SetCells(W, H, prev), last.dx, last.dy)

\* C3: after translate(v) with |v.dx| >= W or |v.dy| >= H, on either axis and
\* whatever the other component, no cell of the grid is set.
C3_SaturationEmpties ==
    (last.op = "translate" /\ Saturates(W, H, last.dx, last.dy))
        => SetCells(W, H, data) = {}

\* A non-empty grid was translated by a vector that saturates on the x axis
\* only, with a non-zero y component, and has no cell left.
C3_Witness ==
    /\ last.op = "translate"
    /\ Abs(last.dx) >= W /\ last.dy # 0 /\ Abs(last.dy) < H
    /\ SetCells(W, H, prev) # {}
    /\ SetCells(W, H, data) = {}

\* A step that translates back by -v a grid that had exactly one set cell
\* before it was translated by a non-saturating v restores that grid's cells.
C6_RoundTripStep ==
    (/\ last.op = "translate" /\ last'.op = "translate"
     /\ last'.dx = -last.dx /\ last'.dy = -last.dy
     /\ ~ Saturates(W, H, last.dx, last.dy)
     /\ Cardinality(SetCells(W, H, prev)) = 1)
        => SetCells(W, H, data') = SetCells(W, H, prev)

\* C6 as stated: a grid with exactly one set cell, translated by v and then by
\* -v where neither saturates, has the cells it had at first.
C6_RoundTrip == [][C6_RoundTripStep]_vars

\* The same step, for a vector v that keeps the only set cell (x, y) inside the
\* grid: (x + v.dx, y + v.dy) is a cell.
C6_RoundTripInsideStep ==
    (/\ last.op = "translate" /\ last'.op = "translate"
     /\ last'.dx = -last.dx /\ last'.dy = -last.dy
     /\ ~ Saturates(W, H, last.dx, last.dy)
     /\ \E p \in SetCells(W, H, prev) :
          /\ SetCells(W, H, prev) = {p}
          /\ InGrid(W, H, p[1] + last.dx, p[2] + last.dy))
        => SetCells(W, H, data') = SetCells(W, H, prev)

\* C6 amended: a grid with exactly one set cell (x, y), translated by v and then
\* by -v where neither saturates and (x + v.dx, y + v.dy) lies inside the grid,
\* has the cells it had at first.
C6_RoundTripInside == [][C6_RoundTripInsideStep]_vars

\* A one-cell grid of the multi-word type was moved diagonally by v and back by
\* -v, and holds one cell again, not where it was in between.
C6_Witness ==
    /\ last.op = "translate" /\ last.undo
    /\ last.dx # 0 /\ last.dy # 0
    /\ ~ Saturates(W, H, last.dx, last.dy)
    /\ WORD_COUNT(W, H) > 1
    /\ Cardinality(SetCells(W, H, prev)) = 1
    /\ Cardinality(SetCells(W, H, data)) = 1
    /\ SetCells(W, H, data) # SetCells(W, H, prev)
    /\ SetCells(W, H, prev) = MovedCells(W, H, SetCells(W, H, data), -last.dx, -last.dy)

\* C7: translating a grid by the zero vector leaves it exactly as it was.
C7_ZeroIsIdentity ==
    (last.op = "translate" /\ last.dx = 0 /\ last.dy = 0) => data = prev

\* A grid with several set cells was translated by (0, 0).
C7_Witness ==
    /\ last.op = "translate" /\ last.dx = 0 /\ last.dy = 0
    /\ Cardinality(SetCells(W, H, prev)) > 1
    /\ data = prev

----------------------------------------------------------------------------
(* Claims on GridMask, checked under SpecMask *)

\* C4: translating by EAST a mask whose set cells all lie in the rightmost
\* column, or by WEST a mask whose set cells all lie in the leftmost column,
\* returns the empty mask.
C4_NoHorizontalWrap ==
    (/\ call.op = "translate"
     /\ \/ <<call.x, call.y>> = EAST /\ mask \subseteq Column(COLS - 1)
        \/ <<call.x, call.y>> = WEST /\ mask \subseteq Column(0))
        => (pc = "returned" /\ ret.value = GridMask_EMPTY)

\* C5: translate never panics; for |dx| <= 7 and |dy| <= 7 it returns the mask
\* in which (x, y) is set if and only if (x - dx, y - dy) is inside the 8x8 grid
\* and set in the receiver, and otherwise the empty mask.
C5_MaskTranslate ==
    call.op = "translate"
        => /\ pc = "returned"
           /\ ret.value = IF Abs(call.x) <= 7 /\ Abs(call.y) <= 7
                          THEN MovedMask(mask, call.x, call.y)
                          ELSE GridMask_EMPTY

\* C8: connected(mask, seed) returns exactly the cells of mask reachable from
\* seed by paths of neighbouring set cells, and the empty mask when the seed is
\* not set.
C8_ConnectedIsComponent ==
    (call.op = "connected" /\ pc # "loop")
        => (pc = "returned" /\ ret.value = Component(call.adjacency, mask, call.seed))

\* A step keeps the frontier, stays inside the mask, and has made no more than
\* popcount(mask) passes, fewer when another pass is still to come.
C9_LoopStep ==
    /\ flooded \subseteq flooded'
    /\ flooded' \subseteq mask'
    /\ iters' <= Cardinality(mask')
    /\ pc' = "loop" => iters' < Cardinality(mask')

\* C9: in the loop of connected every pass leaves a frontier that contains the
\* one before and lies inside the mask, and no more than popcount(mask) passes
\* are made.
C9_LoopMonotoneBounded == [][C9_LoopStep]_vars

\* The loop of connected returned after exactly popcount(mask) passes, on a
\* mask of three cells or more.
C9_Witness ==
    /\ call.op = "connected" /\ pc = "returned"
    /\ Cardinality(mask) >= 3
    /\ iters = Cardinality(mask)
    /\ ret.value = mask

\* C10: is_contiguous is true if and only if the mask is non-empty and all its
\* set cells form one connected component.
C10_IsContiguous ==
    (call.op = "is_contiguous" /\ pc # "loop")
        => /\ pc = "returned"
           /\ ret.flag <=> (/\ mask # {}
                            /\ \A c \in mask : Component(call.adjacency, mask, c) = mask)

\* C11: two seeds in the same connected component of the mask give the same
\* result of connected.
C11_SeedIndependent ==
    (call.op = "connected" /\ pc # "loop")
        => \A seed2 \in SampleSeeds \cap Component(call.adjacency, mask, call.seed) :
              /\ pc = "returned"
              /\ GridMask_connected(call.adjacency, mask, seed2, overflow_checks)
                     = Value(ret.value)

\* The cells of m and their in-bounds neighbours under the adjacency rule.
Grown(adjacency, m) ==
    m \cup {c \in U64Bits : \E n \in m : Adjacent(adjacency, n, c)}

\* C12: grow::<Cardinal>(mask) has cell c set if and only if c or one of its
\* in-bounds north, south, east or west neighbours is set in mask.
C12_CardinalGrow ==
    (call.op = "grow" /\ call.adjacency = "Cardinal")
        => (pc = "returned" /\ ret.value = Grown("Cardinal", mask))

\* The eight single-step vectors: N, S, E, W, NE, NW, SE, SW.
EightSteps == {v \in (-1 .. 1) \X (-1 .. 1) : v # <<0, 0>>}

\* C13: grow::<Octile>(mask), a vertical grow followed by a horizontal grow of
\* its result, equals the union of mask with its eight single-step translations.
C13_OctileGrow ==
    (call.op = "grow" /\ call.adjacency = "Octile")
        => /\ pc = "returned"
           /\ ret.value = mask \cup UNION {MovedMask(mask, v[1], v[2]) : v \in EightSteps}

\* C14: grow(FULL) == FULL under the Cardinal and the Octile rule.
C14_GrowFull ==
    (call.op = "grow" /\ mask = GridMask_FULL)
        => (pc = "returned" /\ ret.value = GridMask_FULL)

\* The mask is non-empty and every two of its cells are joined by a path of
\* neighbouring cells of the mask.
Contiguous(adjacency, m) ==
    m # {} /\ \A c \in m : Component(adjacency, m, c) = m

\* C15: for a mask m contiguous under A, GridShape::<A>::try_from(m) succeeds
\* and converting the shape back gives exactly m.
C15_ShapeRoundTrip ==
    (call.op = "try_from" /\ Contiguous(call.adjacency, mask))
        => (pc = "returned" /\ ret.flag /\ shape.mask = mask)

\* C16: for a mask that is empty or not contiguous under A,
\* GridShape::<A>::try_from fails with Discontiguous carrying that mask.
C16_DiscontiguousRejected ==
    (call.op = "try_from" /\ ~Contiguous(call.adjacency, mask))
        => (pc = "returned" /\ ~ret.flag /\ ret.value = mask)

\* C17: every GridShape<A> made by the constructors, translate and cast wraps a
\* non-empty mask that is contiguous under A.
C17_ShapeInvariant ==
    shape.some => Contiguous(shape.adjacency, shape.mask)

\* C18: GridShape::<A>::contiguous(grid, seed) returns Ok only when grid is
\* contiguous under A, the shape then wrapping grid; otherwise it returns
\* Discontiguous.
C18_ContiguousConstructor ==
    (call.op = "contiguous")
        => /\ pc = "returned"
           /\ IF Contiguous(call.adjacency, mask)
              THEN ret.flag => ret.value = mask
              ELSE ~ret.flag

BitwiseOps == {"bitand_at", "bitor_at", "bitxor_at"}

\* The size of the view passed does not fit at the placement point.
DoesNotFit ==
    last.at[1] + last.other.width > W \/ last.at[2] + last.other.height > H

\* Cell (i, j) of the view passed to the last operation.
SourceCell(i, j) ==
    ((last.other.y + j) * last.other.data_stride + last.other.x + i) \in last.other.data

\* C19: bitand_at, bitor_at and bitxor_at return OutOfBounds whenever the size
\* of the source does not fit at the placement point (at.x + w > W or
\* at.y + h > H), and the destination is then left completely unmodified.
C19_OutOfBoundsUntouched ==
    (last.op \in BitwiseOps /\ DoesNotFit) => (~last.ok /\ data = prev)

C19_Witness ==
    /\ last.op \in BitwiseOps
    /\ ~last.ok
    /\ last.at[1] + last.other.width <= W
    /\ last.at[2] + last.other.height > H
    /\ prev # {}

\* C20: when a bitwise operation succeeds, every destination cell
\* (at.x + i, at.y + j) of the footprint becomes old OP source(i, j) and every
\* cell outside the footprint is unchanged, also when rows are not word-aligned.
C20_FootprintOnly ==
    (last.op \in BitwiseOps /\ last.ok)
        => \A p \in (0 .. (W - 1)) \X (0 .. (H - 1)) :
              LET i == p[1] - last.at[1]
                  j == p[2] - last.at[2]
                  old == const_get(prev, from_point(W, p[1], p[2]))
                  new == const_get(data, from_point(W, p[1], p[2]))
              IN  IF i >= 0 /\ i < last.other.width /\ j >= 0 /\ j < last.other.height
                  THEN new = apply_op(last.op, old, SourceCell(i, j))
                  ELSE new = old

\* A success whose footprint starts inside a row and straddles the end of the
\* first storage word, from a view that starts inside its own rows.
C20_Witness ==
    /\ last.op = "bitxor_at"
    /\ last.ok
    /\ last.other.x > 0
    /\ last.at[1] > 0
    /\ from_point(W, last.at[1], last.at[2]) < WORD_BITS
    /\ from_point(W, last.at[1] + last.other.width - 1, last.at[2]) >= WORD_BITS
    /\ data # prev

\* The rect does not lie inside an owner of size w x h, or is empty.
RectMisfit(w, h, r) ==
    r[3] = 0 \/ r[4] = 0 \/ r[1] + r[3] > w \/ r[2] + r[4] > h

\* C21: making a view or a sub-view from a rect whose origin + size exceeds the
\* owner's size on an axis, or whose size is zero on an axis, fails with
\* OutOfBounds for all u16 values, never panicking or wrapping; otherwise it
\* succeeds and the view covers exactly that rect of the owner.
C21_ViewCreation ==
    /\ last.op = "view" =>
          /\ last.ok <=> ~RectMisfit(W, H, last.rect)
          /\ last.ok => target = Target(last.rect[1], last.rect[2],
                                        last.rect[3], last.rect[4])
    /\ last.op = "get_rect" =>
          /\ pc # "panicked"
          /\ last.ok <=> ~RectMisfit(last.on.width, last.on.height, last.rect)
          /\ last.ok => target = Target(last.on.x + last.rect[1], last.on.y + last.rect[2],
                                        last.rect[3], last.rect[4])

\* The local point lies outside the size of the view the call was made on.
OutsideView == last.at[1] >= last.on.width \/ last.at[2] >= last.on.height

\* The owner's cell that the local point of the last call stands for.
OwnerCell == <<last.on.x + last.at[1], last.on.y + last.at[2]>>

\* C22: get and set with local coordinates return OutOfBounds if and only if
\* lx >= w or ly >= h; otherwise they read or write exactly the owner's cell
\* (ox + lx, oy + ly) and no other cell.
C22_LocalAccess ==
    (last.op \in {"get_point", "set_point"})
        => /\ pc = "returned"
           /\ last.ok <=> ~OutsideView
           /\ ~last.ok => data = prev
           /\ (last.ok /\ last.op = "get_point")
                 => /\ data = prev
                    /\ InGrid(W, H, OwnerCell[1], OwnerCell[2])
                    /\ last.value = (OwnerCell \in SetCells(W, H, prev))
           /\ (last.ok /\ last.op = "set_point")
                 => /\ InGrid(W, H, OwnerCell[1], OwnerCell[2])
                    /\ SetCells(W, H, data) =
                          IF last.value THEN SetCells(W, H, prev) \cup {OwnerCell}
                          ELSE SetCells(W, H, prev) \ {OwnerCell}

\* The owner's cell of index i relative to the view the call was made on:
\* local cell (i mod width, i div width).
RelativeCell(i) ==
    <<last.on.x + (i % last.on.width), last.on.y + (i \div last.on.width)>>

\* C23: get(i) and set(i, v) on a view take i relative to the view, row-major
\* over the view's own cells, and return OutOfBounds when i is not less than
\* the view's cell count.
C23_RelativeIndex ==
    (last.op \in {"get_index", "set_index"})
        => /\ last.ok <=> last.index < last.on.width * last.on.height
           /\ (last.ok /\ last.op = "get_index")
                 => last.value = (RelativeCell(last.index) \in SetCells(W, H, prev))
           /\ (last.ok /\ last.op = "set_index")
                 => SetCells(W, H, data) =
                       IF last.value
                       THEN SetCells(W, H, prev) \cup {RelativeCell(last.index)}
                       ELSE SetCells(W, H, prev) \ {RelativeCell(last.index)}

----------------------------------------------------------------------------
(* GridGetIndex / GridSetIndex of ArrayGrid, and the conversions between
   ArrayPoint and ArrayIndex *)

\* Number of indexing calls in a run.
MaxIndexOps == 1

\* What the coordinate types of the callers can hold beyond u16.
U16_OVER == U16_MAX + 1

I32_MAX == 2147483647

IndexErr == [ok |-> FALSE, value |-> FALSE]

IndexOk(v) == [ok |-> TRUE, value |-> v]

\* u16::try_from that truncates, as `as u16` would.
u16_try_from_Truncating(n) == IndexOk(n % U16_OVER)

\* u16::try_from(n) for n: u32 or i32
u16_try_from(n) == IF n >= 0 /\ n <= U16_MAX THEN IndexOk(n) ELSE IndexErr

\* try_into_array_point::<N1, N2, W, H>(x, y)
try_into_array_point(w, h, x, y) ==
    LET cx == u16_try_from(x)
        cy == u16_try_from(y)
    IN  IF ~ cx.ok \/ ~ cy.ok THEN IndexErr
        ELSE IF ArrayPoint_new(w, h, cx.value, cy.value)
             THEN IndexOk(<<cx.value, cy.value>>)
             ELSE IndexErr

\* ArrayIndex::try_new(index) for index: u32
ArrayIndex_try_new(w, h, index) ==
    IF ArrayIndex_new(w, h, index) THEN IndexOk(index) ELSE IndexErr

\* <u32 as GridGetIndex<ArrayGrid>>::get
u32_get(w, h, d, index) ==
    LET i == ArrayIndex_try_new(w, h, index)
    IN  IF i.ok THEN IndexOk(const_get(d, i.value)) ELSE IndexErr

\* <u32 as GridSetIndex<ArrayGrid>>::set: the returned value is the grid
u32_set(w, h, d, index, value) ==
    LET i == ArrayIndex_try_new(w, h, index)
    IN  IF i.ok THEN IndexOk(const_set(d, i.value, value)) ELSE IndexErr

\* <(N1, N2) as GridGetIndex<ArrayGrid>>::get, and the same for Point<N1, N2>
tuple_get(w, h, d, x, y) ==
    LET p == try_into_array_point(w, h, x, y)
    IN  IF p.ok THEN IndexOk(const_get(d, from_point(w, p.value[1], p.value[2])))
        ELSE IndexErr

\* <(N1, N2) as GridSetIndex<ArrayGrid>>::set, and the same for Point<N1, N2>
tuple_set(w, h, d, x, y, value) ==
    LET p == try_into_array_point(w, h, x, y)
    IN  IF p.ok THEN IndexOk(const_set(d, from_point(w, p.value[1], p.value[2]), value))
        ELSE IndexErr

\* The division by the height instead of the width.
ArrayPoint_from_index_ByHeight(w, h, index) == <<index % h, index \div h>>

\* ArrayPoint::from(ArrayIndex): (y, x) = index.div_rem(W)
ArrayPoint_from_index(w, h, index) == <<index % w, index \div w>>

\* ArrayIndex::from(ArrayPoint): y * W + x
ArrayIndex_from_point(w, x, y) == y * w + x

\* Raw u32 indices: the ends of the grid, the first ones past it, and the
\* largest value at hand.
RawIndices(w, h) ==
    {0, 1, w, CELLS(w, h) - 1, CELLS(w, h), CELLS(w, h) + 1, U16_OVER + 1, I32_MAX}

\* Raw coordinates of one axis of length n, of a type wider than u16.
RawCoords(n) == {-1, 0, 1, n - 1, n, U16_MAX, U16_OVER, U16_OVER + 1}

InitIndex ==
    /\ \E t \in GridTypes : W = t[1] /\ H = t[2]
    /\ \E words \in {EMPTY, FULL(W, H), {i \in AllBits(W, H) : i % 2 = 0}, {W + 1}} :
         /\ data = from_words(W, H, words)
         /\ prev = words
    /\ last = NoOp("from_words")
    /\ steps = 0
    /\ target = NoTarget
    /\ MaskIdle

\* grid.get(index: u32)
GetIndex ==
    /\ steps < MaxIndexOps
    /\ \E index \in RawIndices(W, H) :
         LET out == u32_get(W, H, data, index)
         IN  last' = [NoOp("get_index") EXCEPT
                          !.index = index, !.ok = out.ok, !.value = out.value]
    /\ prev' = data
    /\ steps' = steps + 1
    /\ UNCHANGED <<W, H, data, target>>
    /\ UNCHANGED maskVars

\* grid.set(index: u32, value)
SetIndex ==
    /\ steps < MaxIndexOps
    /\ \E index \in RawIndices(W, H), value \in BOOLEAN :
         LET out == u32_set(W, H, data, index, value)
         IN  /\ data' = IF out.ok THEN out.value ELSE data
             /\ last' = [NoOp("set_index") EXCEPT
                             !.index = index, !.ok = out.ok, !.value = value]
    /\ prev' = data
    /\ steps' = steps + 1
    /\ UNCHANGED <<W, H, target>>
    /\ UNCHANGED maskVars

\* grid.get((x, y)) or grid.get(Point { x, y })
GetPoint ==
    /\ steps < MaxIndexOps
    /\ \E x \in RawCoords(W), y \in RawCoords(H) :
         LET out == tuple_get(W, H, data, x, y)
         IN  last' = [NoOp("get_point") EXCEPT
                          !.at = <<x, y>>, !.ok = out.ok, !.value = out.value]
    /\ prev' = data
    /\ steps' = steps + 1
    /\ UNCHANGED <<W, H, data, target>>
    /\ UNCHANGED maskVars

\* grid.set((x, y), value) or grid.set(Point { x, y }, value)
SetPoint ==
    /\ steps < MaxIndexOps
    /\ \E x \in RawCoords(W), y \in RawCoords(H), value \in BOOLEAN :
         LET out == tuple_set(W, H, data, x, y, value)
         IN  /\ data' = IF out.ok THEN out.value ELSE data
             /\ last' = [NoOp("set_point") EXCEPT
                             !.at = <<x, y>>, !.ok = out.ok, !.value = value]
    /\ prev' = data
    /\ steps' = steps + 1
    /\ UNCHANGED <<W, H, target>>
    /\ UNCHANGED maskVars

\* ArrayPoint::from(ArrayIndex::from(point)) for an ArrayPoint
PointToIndex ==
    /\ steps < MaxIndexOps
    /\ \E x \in 0 .. (W - 1), y \in 0 .. (H - 1) :
         LET index == ArrayIndex_from_point(W, x, y)
         IN  last' = [NoOp("point_to_index") EXCEPT
                          !.at = <<x, y>>, !.index = index,
                          !.result = ArrayPoint_from_index(W, H, index)]
    /\ prev' = data
    /\ steps' = steps + 1
    /\ UNCHANGED <<W, H, data, target>>
    /\ UNCHANGED maskVars

\* ArrayIndex::from(ArrayPoint::from(index)) for an ArrayIndex
IndexToPoint ==
    /\ steps < MaxIndexOps
    /\ \E index \in 0 .. (CELLS(W, H) - 1) :
         LET point == ArrayPoint_from_index(W, H, index)
         IN  last' = [NoOp("index_to_point") EXCEPT
                          !.index = index, !.at = point,
                          !.result = <<ArrayIndex_from_point(W, point[1], point[2])>>]
    /\ prev' = data
    /\ steps' = steps + 1
    /\ UNCHANGED <<W, H, data, target>>
    /\ UNCHANGED maskVars

NextIndex == GetIndex \/ SetIndex \/ GetPoint \/ SetPoint \/ PointToIndex \/ IndexToPoint

SpecIndex == InitIndex /\ [][NextIndex]_vars

----------------------------------------------------------------------------
(* Claims on indexing, checked under SpecIndex *)

\* The raw coordinates name a cell of the grid.
NamesCell(x, y) == x >= 0 /\ x < W /\ y >= 0 /\ y < H

\* C24: get and set on an ArrayGrid with a raw index at or past W * H, or
\* with a coordinate pair whose x is at or past W or whose y is at or past H
\* (values that do not fit u16 included), report OutOfBounds, and a set that
\* failed leaves the grid as it was; inside the grid the very cell is read or
\* written, with no wrapping or clamping into range.
C24_OutOfBoundsIndex ==
    /\ last.op \in {"get_index", "set_index"}
         => /\ last.ok <=> last.index < CELLS(W, H)
            /\ (last.op = "get_index" /\ last.ok) => last.value = (last.index \in prev)
            /\ (last.op = "set_index" /\ last.ok)
                 => data = IF last.value THEN prev \cup {last.index}
                           ELSE prev \ {last.index}
    /\ last.op \in {"get_point", "set_point"}
         => /\ last.ok <=> NamesCell(last.at[1], last.at[2])
            /\ (last.op = "get_point" /\ last.ok)
                 => last.value = ((last.at[2] * W + last.at[1]) \in prev)
            /\ (last.op = "set_point" /\ last.ok)
                 => data = IF last.value THEN prev \cup {last.at[2] * W + last.at[1]}
                           ELSE prev \ {last.at[2] * W + last.at[1]}
    /\ (last.op \in {"get_index", "set_index", "get_point", "set_point"} /\ ~ last.ok)
         => data = prev

\* A set of true on an empty cell with a coordinate that does not fit u16 and
\* would name a cell if truncated failed and left the grid as it was.
C24_Witness ==
    /\ last.op = "set_point" /\ last.value
    /\ last.at[1] = U16_OVER + 1 /\ last.at[2] = 0
    /\ 1 \notin prev
    /\ ~ last.ok
    /\ data = prev


\* C27: the index of a valid point is y * W + x, and the conversions are
\* inverse to each other: Point -> Index -> Point and Index -> Point -> Index
\* both give back the value they started from.
C27_IndexPointRoundTrip ==
    /\ last.op = "point_to_index"
         => /\ last.index = last.at[2] * W + last.at[1]
            /\ ArrayIndex_new(W, H, last.index)
            /\ last.result = last.at
    /\ last.op = "index_to_point"
         => /\ ArrayPoint_new(W, H, last.at[1], last.at[2])
            /\ last.index = last.at[2] * W + last.at[1]
            /\ last.result = <<last.index>>

\* The last cell of the last row of the grid of more than one word went to its
\* index, the last one, and back.
C27_Witness ==
    /\ last.op = "point_to_index"
    /\ WORD_COUNT(W, H) > 1
    /\ last.at = <<W - 1, H - 1>>
    /\ last.index = CELLS(W, H) - 1
    /\ last.result = last.at

----------------------------------------------------------------------------
(* GridMask::set, unset and index with a coordinate pair *)

\* GridPos::try_from(n): the bounded integer 0 ..= 7
GridPos_try_from(n) == IF n >= 0 /\ n <= 7 THEN IndexOk(n) ELSE IndexErr

\* <(X, Y) as TryGridIndex>::try_to_index
tuple_try_to_index(x, y) ==
    LET cx == GridPos_try_from(x)
        cy == GridPos_try_from(y)
    IN  IF ~ cx.ok \/ ~ cy.ok THEN IndexErr ELSE IndexOk(cy.value * COLS + cx.value)

\* TryGridIndex::to_grid_mask: try_to_index().map_or(GridMask::EMPTY, Into::into)
try_to_grid_mask(x, y) ==
    LET index == tuple_try_to_index(x, y)
    IN  IF index.ok THEN to_grid_mask(index.value) ELSE GridMask_EMPTY

\* GridMask::set: *self | pos.to_grid_mask()
GridMask_set(m, x, y) == m \cup try_to_grid_mask(x, y)

\* GridMask::unset: *self & !pos.to_grid_mask()
GridMask_unset(m, x, y) == m \cap Not64(try_to_grid_mask(x, y))

\* GridMask::index: pos.try_to_index().is_ok_and(|index| self.0 & (1 << index) != 0)
GridMask_index(m, x, y) ==
    LET index == tuple_try_to_index(x, y)
    IN  index.ok /\ index.value \in m

\* Coordinates of a type wider than GridPos.
MaskCoords == {-1, 0, 1, 7, 8, 255, 256}

\* mask.set((x, y))
MaskSet ==
    /\ pc = "start"
    /\ \E x \in MaskCoords, y \in MaskCoords :
         /\ call' = [NoCall EXCEPT !.op = "set", !.x = x, !.y = y]
         /\ ret' = [NoRet EXCEPT !.value = GridMask_set(mask, x, y)]
    /\ pc' = "returned"
    /\ UNCHANGED <<overflow_checks, mask, flooded, iters>>
    /\ UNCHANGED arrayVars
    /\ UNCHANGED <<shape, iter>>

\* mask.unset((x, y))
MaskUnset ==
    /\ pc = "start"
    /\ \E x \in MaskCoords, y \in MaskCoords :
         /\ call' = [NoCall EXCEPT !.op = "unset", !.x = x, !.y = y]
         /\ ret' = [NoRet EXCEPT !.value = GridMask_unset(mask, x, y)]
    /\ pc' = "returned"
    /\ UNCHANGED <<overflow_checks, mask, flooded, iters>>
    /\ UNCHANGED arrayVars
    /\ UNCHANGED <<shape, iter>>

\* mask.index((x, y))
MaskIndex ==
    /\ pc = "start"
    /\ \E x \in MaskCoords, y \in MaskCoords :
         /\ call' = [NoCall EXCEPT !.op = "index", !.x = x, !.y = y]
         /\ ret' = [NoRet EXCEPT !.flag = GridMask_index(mask, x, y)]
    /\ pc' = "returned"
    /\ UNCHANGED <<overflow_checks, mask, flooded, iters>>
    /\ UNCHANGED arrayVars
    /\ UNCHANGED <<shape, iter>>

NextMaskIndex == MaskSet \/ MaskUnset \/ MaskIndex

SpecMaskIndex == InitMask /\ [][NextMaskIndex]_vars

\* The pair names no cell of the 8x8 grid.
OutsideMask(x, y) == x < 0 \/ x >= COLS \/ y < 0 \/ y >= ROWS

\* C25: GridMask::set, unset and index with a coordinate pair outside the 8x8
\* grid hand the caller an explicit failure: set and unset do not return the
\* mask unchanged, and index does not return false.
C25_ExplicitFailure ==
    (pc = "returned" /\ OutsideMask(call.x, call.y))
        => /\ call.op \in {"set", "unset"} => ret.value # mask
           /\ call.op = "index" => ret.flag

----------------------------------------------------------------------------
(* A claim on count, checked under Spec *)

\* C26: after any sequence of operations on an ArrayGrid, count() is the
\* number of set cells with a flat index below W * H; FULL.count() is W * H
\* also when W * H is no multiple of 64.
C26_CountIsCells ==
    /\ count(data) = Cardinality(SetCells(W, H, data))
    /\ last.op = "FULL" => count(data) = W * H

----------------------------------------------------------------------------
(* ArrayDelta::try_from over all u16 dimensions, with the width of i32 kept.
   A value past i32::MAX is never formed: a sum a * w + b with 0 <= b < w is
   compared through a division, and reduced by 2^32 through its half. *)

\* a * w + b > i32::MAX, for a >= 0, w > 0, 0 <= b < w
exceeds_i32_max(a, w, b) == a > (I32_MAX - b) \div w

\* a * w + b > 2^31, the magnitude of i32::MIN
exceeds_i32_min(a, w, b) ==
    IF b >= 1 THEN exceeds_i32_max(a, w, b - 1)
    ELSE a >= 1 /\ exceeds_i32_max(a - 1, w, w - 1)

\* a * w + b - 2^32, for a * w + b in 2^31 .. 2^32 - 1
wrap_i32(a, w, b) ==
    LET q == (a \div 2) * w
        r == (a % 2) * w + b
        half == q - I32_MAX - 1
    IN  half + (half + r)

DeltaPanic == [panic |-> TRUE, ok |-> FALSE, linear_offset |-> SignedMag(0), dx |-> SignedMag(0)]

DeltaErr == [panic |-> FALSE, ok |-> FALSE, linear_offset |-> SignedMag(0), dx |-> SignedMag(0)]

DeltaOk(offset, dx) ==
    [panic |-> FALSE, ok |-> TRUE, linear_offset |-> SignedMag(offset), dx |-> SignedMag(dx)]

\* vec.dy * W_I32 + vec.dx in i32, then SignedMag::<NonZeroU32>::from: the
\* multiplication and the addition panic on overflow with overflow checks and
\* wrap without them; from negates a negative value, which panics for
\* i32::MIN in either build (the negation, or the expect after it).
\* For |dx| < w and |dy| < h.
linear_offset_i32(w, dx, dy, checks) ==
    IF dy = 0 THEN DeltaOk(dx, dx)
    ELSE LET neg == dy < 0
             ady == Abs(dy)
             sdx == IF neg THEN -dx ELSE dx
             \* |dy * w + dx| = a * w + b, 0 <= b < w
             a == IF sdx >= 0 THEN ady ELSE ady - 1
             b == IF sdx >= 0 THEN sdx ELSE w + sdx
             mul_overflows ==
                 IF neg THEN exceeds_i32_min(ady, w, 0) ELSE exceeds_i32_max(ady, w, 0)
             sum_overflows ==
                 IF neg THEN exceeds_i32_min(a, w, b) ELSE exceeds_i32_max(a, w, b)
             is_min == neg /\ exceeds_i32_max(a, w, b) /\ ~ exceeds_i32_min(a, w, b)
         IN  IF checks /\ (mul_overflows \/ sum_overflows) THEN DeltaPanic
             ELSE IF is_min THEN DeltaPanic
             ELSE IF sum_overflows
                  THEN LET wrapped == wrap_i32(a, w, b)
                       IN  IF neg THEN DeltaOk(-wrapped, dx)
                           ELSE IF wrapped = -I32_MAX - 1 THEN DeltaPanic
                           ELSE DeltaOk(wrapped, dx)
                  ELSE DeltaOk(IF neg THEN -(a * w + b) ELSE a * w + b, dx)

\* ArrayDelta::<W, H>::try_from(vec) for any W, H: u16
ArrayDelta_try_from_i32(w, h, dx, dy, checks) ==
    IF Abs(dx) >= w \/ Abs(dy) >= h THEN DeltaErr
    ELSE linear_offset_i32(w, dx, dy, checks)

\* The dimensions of the types ArrayDelta<W, H> tried.
DeltaTypes == GridTypes \cup {<<U16_MAX, 2>>, <<2, U16_MAX>>, <<U16_MAX, U16_MAX>>}

\* Vector components along an axis of length n.
DeltaAxis(n) ==
    LET pos == {1, n \div 2, n \div 2 + 1, n \div 2 + 2, n - 1, n}
    IN  {0} \cup pos \cup {-c : c \in pos}

InitDelta ==
    /\ \E t \in DeltaTypes : W = t[1] /\ H = t[2]
    /\ data = EMPTY
    /\ prev = EMPTY
    /\ last = NoOp("none")
    /\ steps = 0
    /\ target = NoTarget
    /\ overflow_checks \in BOOLEAN
    /\ mask = {}
    /\ call = NoCall
    /\ pc = "start"
    /\ flooded = {}
    /\ iters = 0
    /\ ret = NoRet
    /\ shape = NoShape
    /\ iter = NoIter

\* ArrayDelta::<W, H>::try_from(ArrayVector { dx, dy })
DeltaTryFrom ==
    /\ pc = "start"
    /\ \E dx \in DeltaAxis(W), dy \in DeltaAxis(H) :
         LET out == ArrayDelta_try_from_i32(W, H, dx, dy, overflow_checks)
         IN  /\ last' = [NoOp("delta") EXCEPT
                             !.dx = dx, !.dy = dy, !.ok = out.ok,
                             !.result = <<out.linear_offset, out.dx>>]
             /\ pc' = IF out.panic THEN "panicked" ELSE "returned"
    /\ UNCHANGED <<W, H, data, prev, steps, target>>
    /\ UNCHANGED <<overflow_checks, mask, call, flooded, iters, ret, shape, iter>>

NextDelta == DeltaTryFrom

SpecDelta == InitDelta /\ [][NextDelta]_vars

\* The i32 a SignedMag stands for.
SignedValue(m) == IF m.sign = "Negative" THEN -m.mag ELSE m.mag

\* v = dy * w + dx for |dx| < w, stated on quotient and remainder by w.
IsLinearOffset(v, w, dx, dy) ==
    IF dx >= 0 THEN v \div w = dy /\ v % w = dx
    ELSE v \div w = dy - 1 /\ v % w = w + dx

\* C28: for all dimensions W, H: u16 and every vector with |dx| < W and
\* |dy| < H, ArrayDelta::try_from returns without a panic, its linear_offset
\* is dy * W + dx with the sign of that sum, and its magnitude is W * H - 1 at
\* most.
C28_LinearOffset ==
    (last.op = "delta" /\ Abs(last.dx) < W /\ Abs(last.dy) < H)
        => /\ pc = "returned"
           /\ last.ok
           /\ IsLinearOffset(SignedValue(last.result[1]), W, last.dx, last.dy)
           /\ last.result[1].mag \div W < H
           /\ last.result[1].sign = "Zero" <=> last.result[1].mag = 0

----------------------------------------------------------------------------
(* BoundedIter<T> over a Bound type T *)

\* Calls made on an iterator after its first None.
MaxSpent == 2

Item(v) == [some |-> TRUE, value |-> v]

\* The Bound types tried, as <<MIN, MAX>>: GridPos, GridLen, BitIndexU64, and
\* ArrayIndex<W, H> for the grid types and for the grid of one cell.
BoundTypes ==
    {<<0, 7>>, <<1, 8>>, <<0, 63>>, <<0, 0>>}
        \cup {<<0, CELLS(t[1], t[2]) - 1>> : t \in GridTypes}

\* Bound::increment: self.get().checked_add(1).and_then(Self::new)
Bound_increment(it, v) == IF v + 1 <= it.max THEN Item(v + 1) ELSE NoItem

\* Bound::decrement: self.get().checked_sub(1).and_then(Self::new)
Bound_decrement(it, v) == IF v - 1 >= 0 /\ v - 1 >= it.min THEN Item(v - 1) ELSE NoItem

\* Bound::remaining: MAX - self
Bound_remaining(it, v) == it.max - v

\* BoundedIter::new
BoundedIter_new(min, max) ==
    [NoIter EXCEPT !.kind = "bounded", !.min = min, !.max = max,
                   !.some = TRUE, !.start = min, !.end = max]

\* RangeInc::len
RangeInc_len(it) == Bound_remaining(it, it.start) - Bound_remaining(it, it.end) + 1

\* BoundedIter::size_hint, both ends of the exact hint
BoundedIter_size_hint(it) == IF it.some THEN RangeInc_len(it) ELSE 0

\* BoundedIter::next with the arm `start >= end` left out.
BoundedIter_next_NoLastArm(it) ==
    IF ~ it.some THEN [some |-> FALSE, start |-> it.start, end |-> it.end, out |-> NoItem]
    ELSE LET next == Bound_increment(it, it.start)
         IN  IF next.some
             THEN [some |-> TRUE, start |-> next.value, end |-> it.end, out |-> Item(it.start)]
             ELSE [some |-> FALSE, start |-> it.start, end |-> it.end, out |-> Item(it.start)]

\* BoundedIter::next: self.0.take()?, then the match
BoundedIter_next(it) ==
    IF ~ it.some THEN [some |-> FALSE, start |-> it.start, end |-> it.end, out |-> NoItem]
    ELSE IF it.start >= it.end
         THEN [some |-> FALSE, start |-> it.start, end |-> it.end, out |-> Item(it.start)]
         ELSE LET next == Bound_increment(it, it.start)
              IN  IF next.some
                  THEN [some |-> TRUE, start |-> next.value, end |-> it.end,
                        out |-> Item(it.start)]
                  ELSE [some |-> FALSE, start |-> it.start, end |-> it.end,
                        out |-> Item(it.start)]

\* BoundedIter::next_back
BoundedIter_next_back(it) ==
    IF ~ it.some THEN [some |-> FALSE, start |-> it.start, end |-> it.end, out |-> NoItem]
    ELSE IF it.start >= it.end
         THEN [some |-> FALSE, start |-> it.start, end |-> it.end, out |-> Item(it.end)]
         ELSE LET prv == Bound_decrement(it, it.end)
              IN  IF prv.some
                  THEN [some |-> TRUE, start |-> it.start, end |-> prv.value,
                        out |-> Item(it.end)]
                  ELSE [some |-> FALSE, start |-> it.start, end |-> it.end,
                        out |-> Item(it.end)]

\* No grid, mask or shape is at hand in the runs of the iterators.
IterIdle ==
    /\ ArrayIdle
    /\ overflow_checks = FALSE
    /\ mask = {}
    /\ call = NoCall
    /\ pc = "start"
    /\ flooded = {}
    /\ iters = 0
    /\ ret = NoRet
    /\ shape = NoShape

InitBounded ==
    /\ IterIdle
    /\ \E t \in BoundTypes : iter = BoundedIter_new(t[1], t[2])

\* iter.next()
BoundedNext ==
    /\ iter.kind = "bounded"
    /\ iter.spent < MaxSpent
    /\ LET r == BoundedIter_next(iter)
       IN  iter' = [iter EXCEPT
                        !.some = r.some, !.start = r.start, !.end = r.end,
                        !.out = r.out, !.back = FALSE,
                        !.yielded = IF r.out.some THEN @ \cup {r.out.value} ELSE @,
                        !.fronts = IF r.out.some THEN @ + 1 ELSE @,
                        !.ended = @ \/ ~ r.out.some,
                        !.spent = IF iter.ended THEN @ + 1 ELSE @]
    /\ UNCHANGED arrayVars
    /\ UNCHANGED <<overflow_checks, mask, call, pc, flooded, iters, ret, shape>>

\* iter.next_back()
BoundedNextBack ==
    /\ iter.kind = "bounded"
    /\ iter.spent < MaxSpent
    /\ LET r == BoundedIter_next_back(iter)
       IN  iter' = [iter EXCEPT
                        !.some = r.some, !.start = r.start, !.end = r.end,
                        !.out = r.out, !.back = TRUE,
                        !.yielded = IF r.out.some THEN @ \cup {r.out.value} ELSE @,
                        !.backs = IF r.out.some THEN @ + 1 ELSE @,
                        !.ended = @ \/ ~ r.out.some,
                        !.spent = IF iter.ended THEN @ + 1 ELSE @]
    /\ UNCHANGED arrayVars
    /\ UNCHANGED <<overflow_checks, mask, call, pc, flooded, iters, ret, shape>>

NextBounded == BoundedNext \/ BoundedNextBack

SpecBounded == InitBounded /\ [][NextBounded]_vars

\* C29: under any interleaving of next() and next_back(), a BoundedIter yields
\* values of MIN ..= MAX only and none of them twice, next() in ascending
\* order from MIN and next_back() in descending order from MAX; it returns
\* None only after it has yielded all of them and then goes on returning
\* None; and its size_hint is the number of values still to be yielded.
C29_BoundedIterExact ==
    iter.kind = "bounded"
        => /\ iter.yielded \subseteq iter.min .. iter.max
           /\ iter.fronts + iter.backs = Cardinality(iter.yielded)
           /\ (iter.out.some /\ ~ iter.back) => iter.out.value = iter.min + iter.fronts - 1
           /\ (iter.out.some /\ iter.back) => iter.out.value = iter.max - iter.backs + 1
           /\ iter.ended => (iter.yielded = iter.min .. iter.max /\ ~ iter.out.some)
           /\ BoundedIter_size_hint(iter)
                  = Cardinality((iter.min .. iter.max) \ iter.yielded)

\* The iterator over the 64 values of BitIndexU64 was drained from both ends
\* and has returned None since, more than once.
C29_Witness ==
    /\ iter.kind = "bounded" /\ iter.max = 63
    /\ iter.fronts >= 2 /\ iter.backs >= 2
    /\ iter.yielded = 0 .. 63
    /\ iter.ended /\ iter.spent >= 1
    /\ BoundedIter_size_hint(iter) = 0

----------------------------------------------------------------------------
(* SetBitsIter: the iterator of BitIndexU64::iter_set_bits *)

\* u64::trailing_zeros of a non-zero value
trailing_zeros(val) == CHOOSE i \in val : \A j \in val : i <= j

\* u64::ilog2 of a non-zero value
ilog2(val) == CHOOSE i \in val : \A j \in val : j <= i

\* val - 1 of a non-zero u64: the lowest set bit is cleared and every bit
\* below it is set
sub_one(val) == (val \ {trailing_zeros(val)}) \cup (0 .. (trailing_zeros(val) - 1))

\* unset_low_bit that clears bit 0 whatever the lowest set bit is.
unset_low_bit_BitZero(val) == IF val = {} THEN {} ELSE val \ {0}

\* UnsetBit::unset_low_bit: NonZeroU64::new(val & (val - 1)); None is {}
unset_low_bit(val) == IF val = {} THEN {} ELSE val \cap sub_one(val)

\* UnsetBit::unset_bit: NonZeroU64::new(v & !(1 << index))
unset_bit(val, index) == IF val = {} THEN {} ELSE val \cap Not64(Shl({0}, index))

\* u64::count_ones
count_ones(val) == Cardinality(val)

\* index.try_into() for BitIndexU64 (0 ..= 63), then .ok()
BitIndexU64_try_from(n) == IF n >= 0 /\ n <= 63 THEN Item(n) ELSE NoItem

\* BitIndexU64::iter_set_bits(val)
iter_set_bits(val) == [NoIter EXCEPT !.kind = "set_bits", !.bits = val, !.source = val]

\* SetBitsIter::next
SetBitsIter_next(it) ==
    IF it.bits = {} THEN [bits |-> it.bits, out |-> NoItem]
    ELSE [bits |-> unset_low_bit(it.bits),
          out |-> BitIndexU64_try_from(trailing_zeros(it.bits))]

\* SetBitsIter::next_back
SetBitsIter_next_back(it) ==
    IF it.bits = {} THEN [bits |-> it.bits, out |-> NoItem]
    ELSE LET index == BitIndexU64_try_from(ilog2(it.bits))
         IN  IF ~ index.some THEN [bits |-> it.bits, out |-> NoItem]
             ELSE [bits |-> unset_bit(it.bits, index.value), out |-> index]

\* SetBitsIter::size_hint, both ends of the exact hint
SetBitsIter_size_hint(it) == IF it.bits = {} THEN 0 ELSE count_ones(it.bits)

\* The u64 values iterated: zero, one bit at either end, both ends, all bits,
\* every other bit, and a few bits apart.
SampleWords ==
    {{}, {0}, {63}, {0, 63}, U64Bits, {i \in U64Bits : i % 2 = 1}, {5, 6, 40, 62}}

InitSetBits ==
    /\ IterIdle
    /\ \E val \in SampleWords : iter = iter_set_bits(val)

\* iter.next()
SetBitsNext ==
    /\ iter.kind = "set_bits"
    /\ iter.spent < MaxSpent
    /\ LET r == SetBitsIter_next(iter)
       IN  iter' = [iter EXCEPT
                        !.bits = r.bits, !.out = r.out, !.back = FALSE,
                        !.yielded = IF r.out.some THEN @ \cup {r.out.value} ELSE @,
                        !.fronts = IF r.out.some THEN @ + 1 ELSE @,
                        !.ended = @ \/ ~ r.out.some,
                        !.spent = IF iter.ended THEN @ + 1 ELSE @]
    /\ UNCHANGED arrayVars
    /\ UNCHANGED <<overflow_checks, mask, call, pc, flooded, iters, ret, shape>>

\* iter.next_back()
SetBitsNextBack ==
    /\ iter.kind = "set_bits"
    /\ iter.spent < MaxSpent
    /\ LET r == SetBitsIter_next_back(iter)
       IN  iter' = [iter EXCEPT
                        !.bits = r.bits, !.out = r.out, !.back = TRUE,
                        !.yielded = IF r.out.some THEN @ \cup {r.out.value} ELSE @,
                        !.backs = IF r.out.some THEN @ + 1 ELSE @,
                        !.ended = @ \/ ~ r.out.some,
                        !.spent = IF iter.ended THEN @ + 1 ELSE @]
    /\ UNCHANGED arrayVars
    /\ UNCHANGED <<overflow_checks, mask, call, pc, flooded, iters, ret, shape>>

NextSetBits == SetBitsNext \/ SetBitsNextBack

SpecSetBits == InitSetBits /\ [][NextSetBits]_vars

\* C30: a SetBitsIter over a u64 yields indices of set bits only and none of
\* them twice, next() the lowest and next_back() the highest one not yet
\* yielded; it returns None only after it has yielded all of them and then
\* goes on returning None; and its size_hint is the number of set bits still
\* to be yielded.
C30_SetBitsIterExact ==
    iter.kind = "set_bits"
        => /\ iter.yielded \subseteq iter.source
           /\ iter.fronts + iter.backs = Cardinality(iter.yielded)
           /\ (iter.out.some /\ ~ iter.back)
                => \A j \in iter.source : j < iter.out.value => j \in iter.yielded
           /\ (iter.out.some /\ iter.back)
                => \A j \in iter.source : j > iter.out.value => j \in iter.yielded
           /\ iter.ended => (iter.yielded = iter.source /\ ~ iter.out.some)
           /\ SetBitsIter_size_hint(iter) = Cardinality(iter.source \ iter.yielded)

\* The iterator over a value of four bits apart was drained from both ends,
\* skipping the unset bits between them, and has returned None since.
C30_Witness ==
    /\ iter.kind = "set_bits"
    /\ iter.source = {5, 6, 40, 62}
    /\ iter.fronts >= 1 /\ iter.backs >= 1
    /\ iter.yielded = iter.source
    /\ iter.ended /\ iter.spent >= 1
    /\ SetBitsIter_size_hint(iter) = 0
====
